---- MODULE Spec2Model ----
(***************************************************************************)
(* Reconciliation engine of the API migration test utility: value          *)
(* classifier (src/comparator.py), path resolver (src/utils.py), coverage  *)
(* tracker (src/coverage_tracker.py) and the per-key test cycle of the     *)
(* orchestrator (src/main.py).  The repository holds two generations of    *)
(* the utility: the first one (code.py, api.py, coverage.py, Fix.py,       *)
(* agg.py, jmd.py) and the rewrite "from scratch" (new.py, Regex.py).      *)
(* Definitions of the first generation that would clash with a name of the *)
(* rewrite carry the method name with its leading underscore, as in the    *)
(* source.                                                                 *)
(***************************************************************************)
EXTENDS Integers, Sequences, FiniteSets, TLC

VARIABLES
    phase,          \* comparator calls: "ready" until one comparator call has returned
    value1,         \* source value (MongoDB)
    value2,         \* primary value (Java 21 response)
    value3,         \* secondary value (Java 8 response)
    call2,          \* outcome of the primary service call: "ok" or "failed"
    call3,          \* outcome of the secondary call: "ok", "failed", or "absent" (no java8 URL)
    data_type,      \* declared mongoType of the mapping
    result,         \* return value of Comparator._compare_values (first generation)
    status,         \* return value of Comparator.compare_values (rewrite)
    field_result,   \* return value of Comparator.compare_field (first generation)
    \* TestOrchestrator and CoverageTracker of the rewrite
    has_java8,              \* test_config has a java8Url
    mapping_config,         \* the loaded mapping config, a list of mappings
    to_be_covered,          \* CoverageTracker.to_be_covered
    covered_attributes,     \* CoverageTracker.covered_attributes
    attribute_results,      \* TestOrchestrator.attribute_results
    json_diff_results,      \* TestOrchestrator.json_diff_results
    tested_payment_ids,     \* TestOrchestrator.tested_payment_ids
    idx,                    \* run_phase_1: number of payment IDs the loop has finished
    pc,                     \* position inside test_single_payment_id
    test_result,            \* test_single_payment_id: the local result
    mongo_result,           \* test_single_payment_id: the local mongo_result
    java21_result,          \* test_single_payment_id: the local java21_result
    java8_result,           \* test_single_payment_id: the local java8_result
    response_attributes,    \* the attributes the loop of step 6 has not reached yet
    covered_at_start,       \* history: covered_attributes when the current key started
    \* Calls of the coverage trackers' methods (SpecTracker)
    tracker_gen,            \* the tracker under call: 1 = coverage.py, 2 = the rewrite
    coverage,               \* first-generation CoverageTracker.coverage
    field_values,           \* first-generation CoverageTracker.field_values
    pending,                \* per payment ID, the observations still to reach the tracker
    observations,           \* history: per payment ID, all its observations
    last_call,              \* history: the last call made on the tracker
    covered_before,         \* history: the covered attributes before the last call
    tracker_raised,         \* the exception the last call raised, or "none"
    close_called,           \* history: close() has been called on the tracker
    \* Calls of the path resolvers (SpecResolve)
    res_doc,                \* the document to resolve in
    res_path,               \* the path, as its segments
    resolved,               \* what get_nested_value returned (or raised)
    resolver,               \* the resolver called: "none", "get_nested_value" (rewrite) or
                            \* "get_nested_value_v1" (first generation)
    \* Calls of AggregationBuilder.select_optimal_records (SpecSampler)
    sampler,                \* the version called: "none", "agg", "Aggfix" or "x"
    aggregation_results,    \* the argument aggregation_results, a list of records
    uncovered_mappings,     \* the argument uncovered_mappings, as the mongoField of each
    covered_fields,         \* the local covered_fields
    selected_records,       \* the local selected_records
    rec_idx,                \* the record the for-loop is at
    sel_pc,                 \* "idle", "loop", "after_loop" or "returned"
    selection_result,       \* the returned dict
    \* APIClient.call_api and TokenManager of the first generation (SpecCall)
    token,                  \* TokenManager.token: 0 for None, else the number of the token
    expiry_time,            \* TokenManager.expiry_time in seconds: 0 for None
    now,                    \* time.time(), in seconds
    max_retries,            \* the argument max_retries of call_api
    attempt,                \* the loop variable of call_api
    call_pc,                \* "idle", "token", "post" or "returned"
    call_result,            \* the dict call_api returned
    http_attempts,          \* history: the requests.post calls of the current call_api
    token_requests,         \* history: the token requests made so far
    token_step,             \* history: the last get_valid_token call
    last_outcome,           \* history: the outcome of the last requests.post of the call
    calls_made,             \* history: the call_api calls started so far
    \* Comparator.compare_json_diff of both generations (SpecDiff)
    diff_java8,             \* the argument java8_response
    diff_java21,            \* the argument java21_response
    diff_mapping_config,    \* Comparator.mapping_config: the jsonAttribute paths, as segments
    diff_gen,               \* the version called: "none", "jmd.py" or "new.py"
    diff_status,            \* the 'status' of the dict compare_json_diff returned
    \* AggregationBuilder.build_pipeline run on a collection (SpecPipeline)
    collection,             \* the documents of the MongoDB collection, in natural order
    pipeline_mappings,      \* the argument uncovered_mappings, as the mongoField of each
    pipeline_gen,           \* the version whose pipeline ran: "none", "agg.py" or "x.py"
    candidates,             \* agg_result['data']: the documents the aggregation returned
    \* TestOrchestrator.run of the rewrite: both phases and the reports (SpecRun)
    run_pc,                 \* "idle", "phase1", "phase2", "queries", "tests", "reports", "done", "raised"
    run_collection,         \* the documents of the MongoDB collection, in natural order
    finder,                 \* the find_one_with_field in use: "new.py" or "Null.py"
    test_payment_ids,       \* test_config['testPaymentIds']
    p2_uncovered,           \* run_phase_2: the local uncovered_mappings
    query_idx,              \* run_phase_2: the mappings the query loop has finished
    payment_ids_to_test,    \* run_phase_2: the local payment_ids_to_test, in insertion order
    to_test,                \* run_phase_2: the positions the test loop has not reached yet
    report,                 \* what generate_reports handed to the reporter
    query_log,              \* history: per query, whether it raised and what it returned
    scheduled               \* history: the payment IDs Phase 2 tested, in order

cmpVars == <<phase, value1, value2, value3, call2, call3, data_type, result, status, field_result>>

trackerVars == <<to_be_covered, covered_attributes>>

cycleVars ==
    <<pc, test_result, mongo_result, java21_result, java8_result,
      response_attributes, covered_at_start>>

orchVars ==
    <<has_java8, mapping_config, trackerVars, attribute_results, json_diff_results,
      tested_payment_ids, idx, cycleVars>>

apiVars ==
    <<tracker_gen, coverage, field_values, pending, observations, last_call, covered_before,
      tracker_raised, close_called>>

resVars == <<res_doc, res_path, resolved, resolver>>

samplerVars ==
    <<sampler, aggregation_results, uncovered_mappings, covered_fields, selected_records,
      rec_idx, sel_pc, selection_result>>

callVars ==
    <<token, expiry_time, now, max_retries, attempt, call_pc, call_result, http_attempts,
      token_requests, token_step, last_outcome, calls_made>>

diffVars == <<diff_java8, diff_java21, diff_mapping_config, diff_gen, diff_status>>

pipelineVars == <<collection, pipeline_mappings, pipeline_gen, candidates>>

flowVars ==
    <<run_pc, run_collection, finder, test_payment_ids, p2_uncovered, query_idx,
      payment_ids_to_test, to_test, report, query_log, scheduled>>

runVars ==
    <<has_java8, mapping_config, attribute_results, json_diff_results, tested_payment_ids,
      idx, cycleVars>>

vars == <<cmpVars, orchVars, apiVars, resVars, samplerVars, callVars, diffVars, pipelineVars, flowVars>>

(***************************************************************************)
(* Python values.  One record shape for every value:                       *)
(*   t      type(value).__name__                                           *)
(*   s      the characters of a str                                        *)
(*   n      an int, a bool (0/1), or a float in units of 10^-FracDigits    *)
(*   items  the elements of a list                                         *)
(*   fields the key -> value mapping of a dict                             *)
(***************************************************************************)
NoFields == [k \in {} |-> 0]

None == [t |-> "NoneType", s |-> <<>>, n |-> 0, items |-> <<>>, fields |-> NoFields]

Str(cs) == [t |-> "str", s |-> cs, n |-> 0, items |-> <<>>, fields |-> NoFields]

IntV(k) == [t |-> "int", s |-> <<>>, n |-> k, items |-> <<>>, fields |-> NoFields]

FloatV(k) == [t |-> "float", s |-> <<>>, n |-> k, items |-> <<>>, fields |-> NoFields]

BoolV(b) == [t |-> "bool", s |-> <<>>, n |-> IF b THEN 1 ELSE 0, items |-> <<>>, fields |-> NoFields]

ListV(xs) == [t |-> "list", s |-> <<>>, n |-> 0, items |-> xs, fields |-> NoFields]

DictV(f) == [t |-> "dict", s |-> <<>>, n |-> 0, items |-> <<>>, fields |-> f]

\* Exponent of safe_float_compare's default tolerance, 0.0000001 = 10^-7.
ToleranceExp == 7

\* Floats are kept as fixed-point integers, one decimal digit finer than the tolerance.
\* The rounding of binary floating point is not modelled: the inputs stay off the exact
\* boundary abs(num1 - num2) = tolerance, where it decides the comparison.
FracDigits == ToleranceExp + 1

Scale == 10 ^ FracDigits

tolerance == 10 ^ (FracDigits - ToleranceExp)

\* Python truthiness: bool(value).
Truthy(v) ==
    CASE v.t = "NoneType" -> FALSE
      [] v.t = "str" -> Len(v.s) > 0
      [] v.t = "list" -> Len(v.items) > 0
      [] v.t = "dict" -> DOMAIN v.fields # {}
      [] OTHER -> v.n # 0

Digits == <<"0", "1", "2", "3", "4", "5", "6", "7", "8", "9">>

IsDigitChar(c) == \E i \in 1..10 : Digits[i] = c

DigitVal(c) == (CHOOSE i \in 1..10 : Digits[i] = c) - 1

\* The character U+00B2 (superscript two): a digit for str.isdigit(), not a decimal for int().
SuperscriptTwo == "U+00B2"

\* part.isdigit() of a path segment; index segments are single characters.
isdigit(part) == IsDigitChar(part) \/ part = SuperscriptTwo

\* int(part) succeeds (and is DigitVal(part)); otherwise it raises ValueError.
int_ok(part) == IsDigitChar(part)

\* An exception raised out of a function, in the place of its return value.
Raised(exc) == [t |-> "raise", s |-> <<exc>>, n |-> 0, items |-> <<>>, fields |-> NoFields]

RECURSIVE DigitsVal(_)
\* int() of a run of decimal digits.
DigitsVal(cs) ==
    IF cs = <<>> THEN 0
    ELSE 10 * DigitsVal(SubSeq(cs, 1, Len(cs) - 1)) + DigitVal(cs[Len(cs)])

RECURSIVE FracVal(_, _)
\* The fraction digits cs, the first one worth 10^(k-1) units; digits below one unit are dropped.
FracVal(cs, k) ==
    IF cs = <<>> \/ k = 0 THEN 0
    ELSE DigitVal(cs[1]) * 10 ^ (k - 1) + FracVal(Tail(cs), k - 1)

RECURSIVE IntChars(_)
\* str() of a non-negative int.
IntChars(k) ==
    IF k < 10 THEN <<Digits[k + 1]>>
    ELSE IntChars(k \div 10) \o <<Digits[(k % 10) + 1]>>

RECURSIVE FracChars(_, _)
\* The k fraction digits of f units, trailing zeros dropped (float.__repr__ keeps the shortest form).
FracChars(f, k) ==
    IF k = 0 \/ f = 0 THEN <<>>
    ELSE <<Digits[(f \div 10 ^ (k - 1)) + 1]>> \o FracChars(f % 10 ^ (k - 1), k - 1)

\* repr() of a float: integer part, point, at least one fraction digit.
FloatChars(x) ==
    LET a == IF x < 0 THEN -x ELSE x
        f == FracChars(a % Scale, FracDigits)
    IN  (IF x < 0 THEN <<"-">> ELSE <<>>) \o IntChars(a \div Scale) \o <<".">>
            \o (IF f = <<>> THEN <<"0">> ELSE f)

\* float() of a str: [ok, x]; ok = FALSE stands for ValueError.  Decimal literals:
\* optional sign, digits with at most one point, at least one digit.
ParseFloat(cs) ==
    LET signed == Len(cs) > 0 /\ cs[1] \in {"-", "+"}
        body == IF signed THEN Tail(cs) ELSE cs
        dots == {i \in 1..Len(body) : body[i] = "."}
        dot == IF dots = {} THEN Len(body) + 1 ELSE CHOOSE i \in dots : TRUE
        ip == SubSeq(body, 1, dot - 1)
        fp == SubSeq(body, dot + 1, Len(body))
        wellformed == /\ Cardinality(dots) <= 1
                      /\ Len(ip) + Len(fp) > 0
                      /\ \A i \in 1..Len(ip) : IsDigitChar(ip[i])
                      /\ \A i \in 1..Len(fp) : IsDigitChar(fp[i])
        mag == DigitsVal(ip) * Scale + FracVal(fp, FracDigits)
    IN  IF wellformed
        THEN [ok |-> TRUE, x |-> IF signed /\ cs[1] = "-" THEN -mag ELSE mag]
        ELSE [ok |-> FALSE, x |-> 0]

\* float(value): TypeError for None, list and dict, ValueError for a str that is no number.
py_float(v) ==
    CASE v.t = "str" -> ParseFloat(v.s)
      [] v.t = "int" -> [ok |-> TRUE, x |-> v.n * Scale]
      [] v.t = "bool" -> [ok |-> TRUE, x |-> v.n * Scale]
      [] v.t = "float" -> [ok |-> TRUE, x |-> v.n]
      [] OTHER -> [ok |-> FALSE, x |-> 0]

Chars(w) ==
    CASE w = "None" -> <<"N", "o", "n", "e">>
      [] w = "True" -> <<"T", "r", "u", "e">>
      [] w = "False" -> <<"F", "a", "l", "s", "e">>
      [] w = "null" -> <<"n", "u", "l", "l">>
      [] w = "true" -> <<"t", "r", "u", "e">>
      [] w = "false" -> <<"f", "a", "l", "s", "e">>

NumChars(k) == IF k < 0 THEN <<"-">> \o IntChars(-k) ELSE IntChars(k)

RECURSIVE Join(_, _, _)
\* sep.join(f(x) for x in xs), xs a sequence of already rendered pieces.
Join(xs, sep, i) ==
    IF i > Len(xs) THEN <<>>
    ELSE xs[i] \o (IF i < Len(xs) THEN sep ELSE <<>>) \o Join(xs, sep, i + 1)

\* The keys of the dicts of this module, in sorted order (sort_keys=True).
SortedKeys == <<"0", "a", "a1", "a2", "b", "data", "error", "fld", "m1", "m2", "statusCode", "success", "x">>

KeysOf(v) == SelectSeq(SortedKeys, LAMBDA k : k \in DOMAIN v.fields)

RECURSIVE py_repr(_)
\* repr(value); str(value) differs from it for a str only.
py_repr(v) ==
    CASE v.t = "NoneType" -> Chars("None")
      [] v.t = "str" -> <<"'">> \o v.s \o <<"'">>
      [] v.t = "int" -> NumChars(v.n)
      [] v.t = "bool" -> IF v.n = 1 THEN Chars("True") ELSE Chars("False")
      [] v.t = "float" -> FloatChars(v.n)
      [] v.t = "list" ->
            <<"[">> \o Join([i \in 1..Len(v.items) |-> py_repr(v.items[i])], <<",", " ">>, 1)
                \o <<"]">>
      [] OTHER ->
            <<"{">> \o Join([i \in 1..Len(KeysOf(v)) |->
                                <<"'", KeysOf(v)[i], "'", ":", " ">>
                                    \o py_repr(v.fields[KeysOf(v)[i]])], <<",", " ">>, 1)
                \o <<"}">>

py_str(v) == IF v.t = "str" THEN v.s ELSE py_repr(v)

RECURSIVE json_dumps(_)
\* json.dumps(value, sort_keys=True, default=str), as the characters of the JSON text.
json_dumps(v) ==
    CASE v.t = "NoneType" -> Chars("null")
      [] v.t = "str" -> <<"\"">> \o v.s \o <<"\"">>
      [] v.t = "int" -> NumChars(v.n)
      [] v.t = "bool" -> IF v.n = 1 THEN Chars("true") ELSE Chars("false")
      [] v.t = "float" -> FloatChars(v.n)
      [] v.t = "list" ->
            <<"[">> \o Join([i \in 1..Len(v.items) |-> json_dumps(v.items[i])], <<",", " ">>, 1)
                \o <<"]">>
      [] OTHER ->
            <<"{">> \o Join([i \in 1..Len(KeysOf(v)) |->
                                <<"\"", KeysOf(v)[i], "\"", ":", " ">>
                                    \o json_dumps(v.fields[KeysOf(v)[i]])], <<",", " ">>, 1)
                \o <<"}">>

deep_equal(obj1, obj2) == json_dumps(obj1) = json_dumps(obj2)

is_numeric_string(value) == value.t = "str" /\ ParseFloat(value.s).ok

safe_float_compare(val1, val2) ==
    LET num1 == py_float(val1)
        num2 == py_float(val2)
        d == num1.x - num2.x
    IN  /\ num1.ok
        /\ num2.ok
        /\ (IF d < 0 THEN -d ELSE d) < tolerance

(***************************************************************************)
(* Value classifier of the first generation: Comparator._compare_values as *)
(* replaced by the NOT_COVERED fix.  The 'note' text is not modelled.      *)
(***************************************************************************)
Verdict(m, mt, sev) == [match |-> m, mismatchType |-> mt, severity |-> sev]

NumericTypes == {"Decimal128", "Double", "Float", "BigDecimal"}

\* Mutant of _compare_values: the type check placed before the one-sided absence rules.
_compare_values_type_first(v1, v2, dtype) ==
    IF v1.t = "NoneType" /\ v2.t = "NoneType"
    THEN Verdict(FALSE, "NOT_COVERED", "NOT_COVERED")
    ELSE IF v1.t # v2.t
    THEN Verdict(FALSE, "TYPE_MISMATCH", "CRITICAL")
    ELSE IF deep_equal(v1, v2)
    THEN Verdict(TRUE, "None", "PASS")
    ELSE IF dtype \in NumericTypes /\ safe_float_compare(v1, v2)
    THEN Verdict(TRUE, "None", "PASS")
    ELSE IF /\ is_numeric_string(Str(py_str(v1)))
            /\ is_numeric_string(Str(py_str(v2)))
            /\ safe_float_compare(v1, v2)
    THEN Verdict(FALSE, "NUMBER_FORMATTING", "WARNING")
    ELSE IF v1.t = "list" /\ v2.t = "list" /\ Len(v1.items) # Len(v2.items)
    THEN Verdict(FALSE, "ARRAY_LENGTH_MISMATCH", "CRITICAL")
    ELSE Verdict(FALSE, "VALUE_DIFFERENCE", "CRITICAL")

\* Mutant of _compare_values: the exact-match rule left out.
_compare_values_no_exact_match(v1, v2, dtype) ==
    IF v1.t = "NoneType" /\ v2.t = "NoneType"
    THEN Verdict(FALSE, "NOT_COVERED", "NOT_COVERED")
    ELSE IF v1.t = "NoneType" /\ v2.t # "NoneType"
    THEN Verdict(FALSE, "NULL_MISMATCH", "WARNING")
    ELSE IF v1.t # "NoneType" /\ v2.t = "NoneType"
    THEN Verdict(FALSE, "NULL_MISMATCH", "WARNING")
    ELSE IF dtype \in NumericTypes /\ safe_float_compare(v1, v2)
    THEN Verdict(TRUE, "None", "PASS")
    ELSE IF /\ is_numeric_string(Str(py_str(v1)))
            /\ is_numeric_string(Str(py_str(v2)))
            /\ safe_float_compare(v1, v2)
    THEN Verdict(FALSE, "NUMBER_FORMATTING", "WARNING")
    ELSE IF v1.t # v2.t
    THEN Verdict(FALSE, "TYPE_MISMATCH", "CRITICAL")
    ELSE IF v1.t = "list" /\ v2.t = "list" /\ Len(v1.items) # Len(v2.items)
    THEN Verdict(FALSE, "ARRAY_LENGTH_MISMATCH", "CRITICAL")
    ELSE Verdict(FALSE, "VALUE_DIFFERENCE", "CRITICAL")

_compare_values(v1, v2, dtype) ==
    IF v1.t = "NoneType" /\ v2.t = "NoneType"
    THEN Verdict(FALSE, "NOT_COVERED", "NOT_COVERED")
    ELSE IF v1.t = "NoneType" /\ v2.t # "NoneType"
    THEN Verdict(FALSE, "NULL_MISMATCH", "WARNING")
    ELSE IF v1.t # "NoneType" /\ v2.t = "NoneType"
    THEN Verdict(FALSE, "NULL_MISMATCH", "WARNING")
    ELSE IF deep_equal(v1, v2)
    THEN Verdict(TRUE, "None", "PASS")
    ELSE IF v1.t = "list" /\ Len(v1.items) = 0 /\ v2.t = "NoneType"
    THEN Verdict(FALSE, "EMPTY_ARRAY_HANDLING", "WARNING")
    ELSE IF v1.t = "NoneType" /\ v2.t = "list" /\ Len(v2.items) = 0
    THEN Verdict(FALSE, "EMPTY_ARRAY_HANDLING", "WARNING")
    ELSE IF dtype \in NumericTypes /\ safe_float_compare(v1, v2)
    THEN Verdict(TRUE, "None", "PASS")
    ELSE IF /\ is_numeric_string(Str(py_str(v1)))
            /\ is_numeric_string(Str(py_str(v2)))
            /\ safe_float_compare(v1, v2)
    THEN Verdict(FALSE, "NUMBER_FORMATTING", "WARNING")
    ELSE IF v1.t # v2.t
    THEN Verdict(FALSE, "TYPE_MISMATCH", "CRITICAL")
    ELSE IF v1.t = "list" /\ v2.t = "list" /\ Len(v1.items) # Len(v2.items)
    THEN Verdict(FALSE, "ARRAY_LENGTH_MISMATCH", "CRITICAL")
    ELSE Verdict(FALSE, "VALUE_DIFFERENCE", "CRITICAL")

(***************************************************************************)
(* Value classifier of the rewrite: Comparator.compare_values, exact       *)
(* string matching of two or three values.  java8_value = None selects the *)
(* two-way comparison.                                                     *)
(***************************************************************************)
compare_values(mongo_value, java21_value, java8_value) ==
    LET mongo_str == IF mongo_value.t # "NoneType" THEN py_str(mongo_value) ELSE <<>>
        java21_str == IF java21_value.t # "NoneType" THEN py_str(java21_value) ELSE <<>>
        java8_str == py_str(java8_value)
    IN  IF java8_value.t # "NoneType"
        THEN (IF mongo_str = java21_str /\ java21_str = java8_str THEN "PASS" ELSE "FAIL")
        ELSE (IF mongo_str = java21_str THEN "PASS" ELSE "FAIL")

(***************************************************************************)
(* Path resolver.  A path is the sequence of its dot-separated segments,   *)
(* array markers "[]" already removed (path.replace('[]', '')); <<>> is    *)
(* the empty path string.                                                  *)
(***************************************************************************)
HasKey(d, k) == d.t = "dict" /\ k \in DOMAIN d.fields

RECURSIVE walk(_, _)
\* The for-loop of get_nested_value (rewrite) from cursor 'current' over the remaining parts.
walk(current, parts) ==
    IF parts = <<>> THEN current
    ELSE LET part == Head(parts) IN
        IF current.t = "NoneType" THEN None
        ELSE IF current.t = "list"
        THEN IF isdigit(part)
             THEN IF ~int_ok(part)
                  THEN None
                  ELSE IF DigitVal(part) < Len(current.items)
                  THEN walk(current.items[DigitVal(part) + 1], Tail(parts))
                  ELSE None
             ELSE IF Len(current.items) > 0
                  THEN IF HasKey(current.items[1], part)
                       THEN walk(current.items[1].fields[part], Tail(parts))
                       ELSE None
                  ELSE None
        ELSE IF current.t = "dict"
        THEN IF part \in DOMAIN current.fields
             THEN walk(current.fields[part], Tail(parts))
             ELSE None
        ELSE None

get_nested_value(data, path) ==
    IF ~Truthy(data) \/ path = <<>> THEN None ELSE walk(data, path)

RECURSIVE walk_v1(_, _)
\* The for-loop of get_nested_value of the first generation (explicit array index only).
walk_v1(current, parts) ==
    IF parts = <<>> THEN current
    ELSE LET part == Head(parts) IN
        IF current.t = "NoneType" THEN None
        ELSE IF isdigit(part)
        THEN IF ~int_ok(part)
             THEN Raised("ValueError")
             ELSE IF current.t = "list" /\ DigitVal(part) < Len(current.items)
             THEN walk_v1(current.items[DigitVal(part) + 1], Tail(parts))
             ELSE None
        ELSE IF current.t = "dict"
        THEN IF part \in DOMAIN current.fields
             THEN walk_v1(current.fields[part], Tail(parts))
             ELSE None
        ELSE None

get_nested_value_v1(obj, path) ==
    IF ~Truthy(obj) \/ path = <<>> THEN None ELSE walk_v1(obj, path)

(***************************************************************************)
(* Field comparison of the first generation: Comparator.compare_field and  *)
(* Comparator._determine_status.  An optional comparison outcome          *)
(* (java8_vs_java21) is the empty sequence for None and a one-element     *)
(* sequence holding the outcome otherwise.                                 *)
(***************************************************************************)
UnknownError == Str(<<"Unknown error">>)

\* dict.get(key, default)
dict_get(d, k, default) == IF HasKey(d, k) THEN d.fields[k] ELSE default

\* Mutant of _determine_status: a mismatch between the two services is not looked at.
_determine_status_primary_only(mongo_vs_java21, java8_vs_java21, java21_error, java8_error) ==
    IF Truthy(java21_error)
    THEN IF java8_vs_java21 = <<>> /\ ~Truthy(java8_error) THEN "CRITICAL_ERROR" ELSE "ERROR"
    ELSE IF Truthy(java8_error) /\ ~Truthy(java21_error)
    THEN "WARNING"
    ELSE IF ~mongo_vs_java21.match
    THEN mongo_vs_java21.severity
    ELSE "PASS"

_determine_status(mongo_vs_java21, java8_vs_java21, java21_error, java8_error) ==
    IF Truthy(java21_error)
    THEN IF java8_vs_java21 = <<>> /\ ~Truthy(java8_error) THEN "CRITICAL_ERROR" ELSE "ERROR"
    ELSE IF Truthy(java8_error) /\ ~Truthy(java21_error)
    THEN "WARNING"
    ELSE IF ~mongo_vs_java21.match
    THEN IF java8_vs_java21 # <<>> /\ ~java8_vs_java21[1].match
         THEN IF "CRITICAL" \in {mongo_vs_java21.severity, java8_vs_java21[1].severity}
              THEN "CRITICAL"
              ELSE "WARNING"
         ELSE mongo_vs_java21.severity
    ELSE IF java8_vs_java21 # <<>> /\ ~java8_vs_java21[1].match
    THEN java8_vs_java21[1].severity
    ELSE "PASS"

\* [value, error] extracted from one service response by compare_field.
extract_response(response, json_attribute) ==
    IF Truthy(response)
    THEN IF HasKey(response, "success") /\ ~Truthy(response.fields["success"])
         THEN [value |-> None, error |-> dict_get(response, "error", UnknownError)]
         ELSE [value |-> get_nested_value_v1(response, json_attribute), error |-> None]
    ELSE [value |-> None, error |-> None]

compare_field(mongo_record, java21_response, java8_response, mapping) ==
    LET mongo_value == get_nested_value_v1(mongo_record, mapping.mongoField)
        java21 == extract_response(java21_response, mapping.jsonAttribute)
        java8 == extract_response(java8_response, mapping.jsonAttribute)
        mongo_vs_java21 == _compare_values(mongo_value, java21.value, mapping.mongoType)
        java8_vs_java21 ==
            IF Truthy(java8_response) /\ ~Truthy(java8.error)
            THEN <<_compare_values(java8.value, java21.value, mapping.mongoType)>>
            ELSE <<>>
    IN  [jsonAttribute |-> mapping.jsonAttribute,
         mongoValue |-> mongo_value,
         java21Value |-> java21.value,
         java8Value |-> java8.value,
         java21Error |-> java21.error,
         java8Error |-> java8.error,
         mongoVsJava21 |-> mongo_vs_java21,
         java8VsJava21 |-> java8_vs_java21,
         status |-> _determine_status(mongo_vs_java21, java8_vs_java21,
                                      java21.error, java8.error),
         severity |-> mongo_vs_java21.severity]

\* String literals of the inputs.
s_empty == <<>>
s_10_50 == <<"1", "0", ".", "5", "0">>
s_10_5 == <<"1", "0", ".", "5">>
s_near == <<"1", "0", ".", "5", "0", "0", "0", "0", "0", "0", "1">>
s_far == <<"1", "0", ".", "5", "0", "0", "0", "0", "0", "2">>
s_abc == <<"a", "b", "c">>
s_7 == <<"7">>

StrLits == {s_empty, s_10_50, s_10_5, s_near, s_far, s_abc, s_7}

(***************************************************************************)
(* The rewrite's coverage tracker, response parser and orchestrator.       *)
(* An attribute name or a MongoDB field is a path, the sequence of its     *)
(* dot-separated segments.                                                 *)
(***************************************************************************)
\* A mongoField of the mapping file: a string (its path) or, the file being unvalidated JSON,
\* a non-empty list.
StrField(path) == [t |-> "str", path |-> path]

ListField == [t |-> "list", path |-> <<>>]

FieldTruthy(f) == f.t = "list" \/ f.path # <<>>

Mapping(json_attr, mongo_field) == [jsonAttribute |-> json_attr, mongoField |-> mongo_field]

\* ConfigLoader.build_json_to_mongo_map: jsonAttribute -> mongoField, for the mappings that
\* hold both (a later mapping of the same attribute replaces an earlier one).
build_json_to_mongo_map(mappings) ==
    LET usable == {i \in DOMAIN mappings :
                        mappings[i].jsonAttribute # <<>> /\ FieldTruthy(mappings[i].mongoField)}
        last(a) == CHOOSE i \in usable :
                        /\ mappings[i].jsonAttribute = a
                        /\ \A j \in usable : mappings[j].jsonAttribute = a => j <= i
    IN  [a \in {mappings[i].jsonAttribute : i \in usable} |-> mappings[last(a)].mongoField]

json_to_mongo_map == build_json_to_mongo_map(mapping_config)

\* CoverageTracker.__init__: the attributes to cover are the jsonAttributes of the mappings.
CoverageTracker_init(mappings) ==
    {mappings[i].jsonAttribute : i \in {j \in DOMAIN mappings : mappings[j].jsonAttribute # <<>>}}

\* Mutant of mark_covered: the attribute is not checked against to_be_covered.
mark_covered_unchecked(attribute) == covered_attributes \cup {attribute}

\* Mutant of mark_covered: the covered set is replaced, not extended.
mark_covered_overwrite(attribute) ==
    IF attribute \in to_be_covered
    THEN {attribute}
    ELSE covered_attributes

\* CoverageTracker.mark_covered: covered_attributes after the call.
mark_covered(attribute) ==
    IF attribute \in to_be_covered
    THEN covered_attributes \cup {attribute}
    ELSE covered_attributes

\* CoverageTracker.get_uncovered_attributes
get_uncovered_attributes == to_be_covered \ covered_attributes

\* Order in which the keys of a response object are met (its insertion order).
KeyOrder == <<"a1", "a2", "a3", "x">>

\* ResponseParser.extract_all_attributes: the paths of the primitive values (and of the lists
\* of primitives) of a response, lists of objects being read through their first element.
RECURSIVE extract_all_attributes(_, _)
extract_all_attributes(response, prefix) ==
    IF response.t = "dict"
    THEN LET keys == SelectSeq(KeyOrder, LAMBDA k : k \in DOMAIN response.fields)
             of(key) ==
                LET value == response.fields[key]
                    current_path == Append(prefix, key)
                IN  IF value.t = "dict"
                    THEN extract_all_attributes(value, current_path)
                    ELSE IF value.t = "list"
                    THEN IF Len(value.items) > 0 /\ value.items[1].t = "dict"
                         THEN extract_all_attributes(value.items[1], current_path)
                         ELSE <<current_path>>
                    ELSE <<current_path>>
             RECURSIVE extend(_)
             extend(i) == IF i > Len(keys) THEN <<>> ELSE of(keys[i]) \o extend(i + 1)
         IN  extend(1)
    ELSE IF response.t = "list"
    THEN IF Len(response.items) > 0
         THEN extract_all_attributes(response.items[1], prefix)
         ELSE <<>>
    ELSE <<>>

\* Comparator.compare_json_diff: the status of the deep diff of the two responses.
compare_json_diff(java8_resp, java21_resp) ==
    IF java8_resp # java21_resp THEN "FAIL" ELSE "PASS"

\* value if value is not None else ''
or_empty(value) == IF value.t = "NoneType" THEN Str(<<>>) ELSE value

(***************************************************************************)
(* Test configuration and the collaborators' answers.                      *)
(***************************************************************************)
MaxKeys == 2

\* test_config['testPaymentIds']
testPaymentIds == [i \in 1..MaxKeys |-> i]

MappingConfigs ==
    { <<Mapping(<<"a1">>, StrField(<<"m1">>)), Mapping(<<"a2">>, StrField(<<"m2">>))>>,
      <<Mapping(<<"a1">>, StrField(<<"m1">>)), Mapping(<<"a2">>, ListField)>> }

Result(ok, data, error) == [success |-> ok, data |-> data, error |-> error]

NotCalled == Result(FALSE, None, "not called")

NoError == "none"

Failed(r) == r # NotCalled /\ ~r.success

\* MongoDBClient.find_by_payment_id: no document / an exception, or the document found.
MongoDocs ==
    {DictV([k \in {"m2"} |-> Str(s_abc)])}
        \cup {DictV([k \in {"m1", "m2"} |-> IF k = "m1" THEN v ELSE Str(s_abc)]) :
                v \in {Str(s_empty), ListV(<<>>), Str(s_abc)}}

MongoResults ==
    {Result(FALSE, None, "No document found")} \cup {Result(TRUE, d, NoError) : d \in MongoDocs}

\* APIClient.call_api of the rewrite: a failure, or the parsed response.
Java21Responses ==
    { DictV([k \in {"a1", "x"} |-> Str(s_abc)]),
      DictV([k \in {"a1", "a2"} |-> IF k = "a1" THEN None ELSE Str(s_abc)]),
      DictV([k \in {"a1", "a2", "x"} |-> Str(s_abc)]),
      DictV([k \in {"a2"} |-> Str(s_7)]) }

Java21Results ==
    {Result(FALSE, None, "HTTP 500")} \cup {Result(TRUE, d, NoError) : d \in Java21Responses}

Java8Responses ==
    { DictV([k \in {"a1", "a2", "x"} |-> Str(s_abc)]),
      DictV([k \in {"a1"} |-> Str(s_7)]) }

Java8Results ==
    {Result(FALSE, None, "HTTP 500")} \cup {Result(TRUE, d, NoError) : d \in Java8Responses}

\* Locals of test_single_payment_id read off the call results.
mongo_doc == mongo_result.data

java21_data == java21_result.data

java8_data == IF java8_result.success THEN java8_result.data ELSE None

payment_id == test_result.paymentId

NoTestResult ==
    [paymentId |-> 0, success |-> FALSE, tested_count |-> 0, passed |-> 0, failed |-> 0,
     error |-> NoError]

\* TestOrchestrator.__init__, load_configurations and initialize_components.
Constructed ==
    /\ to_be_covered = CoverageTracker_init(mapping_config)
    /\ covered_attributes = {}
    /\ attribute_results = <<>>
    /\ json_diff_results = <<>>
    /\ tested_payment_ids = {}
    /\ idx = 0
    /\ pc = "idle"
    /\ test_result = NoTestResult
    /\ mongo_result = NotCalled
    /\ java21_result = NotCalled
    /\ java8_result = NotCalled
    /\ response_attributes = <<>>
    /\ covered_at_start = {}

\* run_phase_1 takes the next payment ID and calls test_single_payment_id.
StartKey ==
    /\ pc = "idle"
    /\ idx < Len(testPaymentIds)
    /\ test_result' = [NoTestResult EXCEPT !.paymentId = testPaymentIds[idx + 1]]
    /\ mongo_result' = NotCalled
    /\ java21_result' = NotCalled
    /\ java8_result' = NotCalled
    /\ response_attributes' = <<>>
    /\ covered_at_start' = covered_attributes
    /\ pc' = "step1"
    /\ UNCHANGED <<has_java8, mapping_config, trackerVars, attribute_results,
                   json_diff_results, tested_payment_ids, idx, cmpVars, apiVars, resVars, samplerVars, callVars, diffVars, pipelineVars, flowVars>>

\* Step 1: query MongoDB; a failed query returns the result with its error.
QueryMongo ==
    /\ pc = "step1"
    /\ \E r \in MongoResults :
        /\ mongo_result' = r
        /\ IF ~r.success
           THEN test_result' = [test_result EXCEPT !.error = r.error] /\ pc' = "returned"
           ELSE UNCHANGED test_result /\ pc' = "step2"
    /\ UNCHANGED <<has_java8, mapping_config, trackerVars, attribute_results,
                   json_diff_results, tested_payment_ids, idx, java21_result, java8_result,
                   response_attributes, covered_at_start, cmpVars, apiVars, resVars, samplerVars, callVars, diffVars, pipelineVars, flowVars>>

\* Step 2: call the Java 21 API; a failed call returns the result with its error.
CallJava21 ==
    /\ pc = "step2"
    /\ \E r \in Java21Results :
        /\ java21_result' = r
        /\ IF ~r.success
           THEN test_result' = [test_result EXCEPT !.error = r.error] /\ pc' = "returned"
           ELSE UNCHANGED test_result /\ pc' = (IF has_java8 THEN "step3" ELSE "step4")
    /\ UNCHANGED <<has_java8, mapping_config, trackerVars, attribute_results,
                   json_diff_results, tested_payment_ids, idx, mongo_result, java8_result,
                   response_attributes, covered_at_start, cmpVars, apiVars, resVars, samplerVars, callVars, diffVars, pipelineVars, flowVars>>

\* Step 3: call the Java 8 API; a failed call is logged as a warning and the cycle goes on.
CallJava8 ==
    /\ pc = "step3"
    /\ \E r \in Java8Results : java8_result' = r
    /\ pc' = "step4"
    /\ UNCHANGED <<has_java8, mapping_config, trackerVars, attribute_results,
                   json_diff_results, tested_payment_ids, idx, test_result, mongo_result,
                   java21_result, response_attributes, covered_at_start, cmpVars, apiVars, resVars, samplerVars, callVars, diffVars, pipelineVars, flowVars>>

\* Steps 4 and 5: the JSON diff when a Java 8 response is held, then the attributes of the
\* Java 21 response.
ParseResponse ==
    /\ pc = "step4"
    /\ json_diff_results' =
            IF has_java8 /\ Truthy(java8_data)
            THEN Append(json_diff_results,
                        [paymentId |-> payment_id,
                         status |-> compare_json_diff(java8_data, java21_data)])
            ELSE json_diff_results
    /\ response_attributes' = extract_all_attributes(java21_data, <<>>)
    /\ pc' = "step6"
    /\ UNCHANGED <<has_java8, mapping_config, trackerVars, attribute_results,
                   tested_payment_ids, idx, test_result, mongo_result, java21_result,
                   java8_result, covered_at_start, cmpVars, apiVars, resVars, samplerVars, callVars, diffVars, pipelineVars, flowVars>>

\* Step 6, an attribute that is not in the mapping config: skipped.
SkipAttribute ==
    /\ pc = "step6"
    /\ response_attributes # <<>>
    /\ Head(response_attributes) \notin DOMAIN json_to_mongo_map
    /\ response_attributes' = Tail(response_attributes)
    /\ UNCHANGED <<has_java8, mapping_config, trackerVars, attribute_results,
                   json_diff_results, tested_payment_ids, idx, pc, test_result, mongo_result,
                   java21_result, java8_result, covered_at_start, cmpVars, apiVars, resVars, samplerVars, callVars, diffVars, pipelineVars, flowVars>>

\* Step 6, a mapped attribute: the three values are resolved and compared, the result is
\* appended, the counters are updated and the attribute is marked as covered.
CompareAttribute ==
    /\ pc = "step6"
    /\ response_attributes # <<>>
    /\ LET attribute == Head(response_attributes) IN
        /\ attribute \in DOMAIN json_to_mongo_map
        /\ LET mongo_field == json_to_mongo_map[attribute] IN
            /\ mongo_field.t = "str"
            /\ LET mongo_value == get_nested_value(mongo_doc, mongo_field.path)
                   java21_value == get_nested_value(java21_data, attribute)
                   java8_value == IF Truthy(java8_data)
                                  THEN get_nested_value(java8_data, attribute)
                                  ELSE None
                   attr_status == compare_values(mongo_value, java21_value, java8_value)
               IN  /\ attribute_results' =
                        Append(attribute_results,
                               [paymentId |-> payment_id,
                                attributeName |-> attribute,
                                mongoField |-> mongo_field.path,
                                mongoValue |-> or_empty(mongo_value),
                                java21Value |-> or_empty(java21_value),
                                java8Value |-> or_empty(java8_value),
                                status |-> attr_status])
                   /\ test_result' =
                        [test_result EXCEPT
                            !.tested_count = @ + 1,
                            !.passed = IF attr_status = "PASS" THEN @ + 1 ELSE @,
                            !.failed = IF attr_status = "PASS" THEN @ ELSE @ + 1]
        /\ covered_attributes' = mark_covered(attribute)
    /\ response_attributes' = Tail(response_attributes)
    /\ UNCHANGED <<has_java8, mapping_config, to_be_covered, json_diff_results,
                   tested_payment_ids, idx, pc, mongo_result, java21_result, java8_result,
                   covered_at_start, cmpVars, apiVars, resVars, samplerVars, callVars, diffVars, pipelineVars, flowVars>>

\* Step 6, a mapped attribute whose mongoField is not a string: mongo_field.replace raises
\* AttributeError, the except clause records the error and returns the result.
LoopRaises ==
    /\ pc = "step6"
    /\ response_attributes # <<>>
    /\ Head(response_attributes) \in DOMAIN json_to_mongo_map
    /\ json_to_mongo_map[Head(response_attributes)].t # "str"
    /\ test_result' = [test_result EXCEPT !.error = "AttributeError"]
    /\ pc' = "returned"
    /\ UNCHANGED <<has_java8, mapping_config, trackerVars, attribute_results,
                   json_diff_results, tested_payment_ids, idx, mongo_result, java21_result,
                   java8_result, response_attributes, covered_at_start, cmpVars, apiVars, resVars, samplerVars, callVars, diffVars, pipelineVars, flowVars>>

\* The loop of step 6 is over: the result is a success.
FinishLoop ==
    /\ pc = "step6"
    /\ response_attributes = <<>>
    /\ test_result' = [test_result EXCEPT !.success = TRUE]
    /\ pc' = "returned"
    /\ UNCHANGED <<has_java8, mapping_config, trackerVars, attribute_results,
                   json_diff_results, tested_payment_ids, idx, mongo_result, java21_result,
                   java8_result, response_attributes, covered_at_start, cmpVars, apiVars, resVars, samplerVars, callVars, diffVars, pipelineVars, flowVars>>

\* run_phase_1 after the call: the payment ID is recorded as tested.
KeyTested ==
    /\ pc = "returned"
    /\ tested_payment_ids' = tested_payment_ids \cup {payment_id}
    /\ idx' = idx + 1
    /\ pc' = "idle"
    /\ UNCHANGED <<has_java8, mapping_config, trackerVars, attribute_results,
                   json_diff_results, test_result, mongo_result, java21_result, java8_result,
                   response_attributes, covered_at_start, cmpVars, apiVars, resVars, samplerVars, callVars, diffVars, pipelineVars, flowVars>>

(***************************************************************************)
(* The coverage trackers as objects: the first-generation CoverageTracker  *)
(* (coverage.py) and the rewrite's, under calls of their methods.          *)
(***************************************************************************)
\* d[k] = v on a dict.
DictSet(d, k, v) == [x \in DOMAIN d \cup {k} |-> IF x = k THEN v ELSE d[x]]

EmptyDict == [x \in {} |-> None]

\* First-generation CoverageTracker.__init__: every attribute of the mapping starts uncovered.
coverage_init(mappings) ==
    [a \in {mappings[i].jsonAttribute : i \in DOMAIN mappings} |-> <<>>]

field_values_init(mappings) ==
    [a \in {mappings[i].jsonAttribute : i \in DOMAIN mappings} |-> EmptyDict]

\* Mutant of mark_field_tested: an observation without data clears the attribute.
mark_field_tested_clears(json_attribute, pid, had_data, value) ==
    IF json_attribute \notin DOMAIN coverage
    THEN [coverage |-> coverage, field_values |-> field_values]
    ELSE IF had_data /\ value.t # "NoneType"
    THEN [coverage |->
            [coverage EXCEPT ![json_attribute] =
                IF \E i \in DOMAIN @ : @[i] = pid THEN @ ELSE Append(@, pid)],
          field_values |->
            [field_values EXCEPT ![json_attribute] = DictSet(@, pid, value)]]
    ELSE [coverage |-> [coverage EXCEPT ![json_attribute] = <<>>],
          field_values |-> field_values]

\* First-generation CoverageTracker.mark_field_tested: coverage and field_values after the call.
mark_field_tested(json_attribute, pid, had_data, value) ==
    IF json_attribute \notin DOMAIN coverage
    THEN [coverage |-> coverage, field_values |-> field_values]
    ELSE IF had_data /\ value.t # "NoneType"
    THEN [coverage |->
            [coverage EXCEPT ![json_attribute] =
                IF \E i \in DOMAIN @ : @[i] = pid THEN @ ELSE Append(@, pid)],
          field_values |->
            [field_values EXCEPT ![json_attribute] = DictSet(@, pid, value)]]
    ELSE [coverage |-> coverage, field_values |-> field_values]

\* First-generation CoverageTracker.mark_result: the field had data if MongoDB held a value.
mark_result(fr, pid) ==
    LET json_attr == fr.jsonAttribute
        mongo_value == fr.mongoValue
        had_data == mongo_value.t # "NoneType"
    IN  mark_field_tested(json_attr, pid, had_data, mongo_value)

\* First-generation get_covered_attributes and get_uncovered_attributes (as sets).
get_covered_attributes == {a \in DOMAIN coverage : Len(coverage[a]) > 0}

get_uncovered_attributes_v1 == {a \in DOMAIN coverage : Len(coverage[a]) = 0}

\* Decimal digits kept of the fraction covered / total.
PctDigits == 4

PctScale == 10 ^ PctDigits

\* Mutant of Percent: the fraction is not multiplied by 100.
Percent_fraction(covered_count, total) == (covered_count * PctScale) \div total

\* (covered / total) * 100 as a float, in units of 10^-PctDigits.
Percent(covered_count, total) == ((covered_count * PctScale) \div total) * 100

\* First-generation CoverageTracker.get_coverage_percentage
get_coverage_percentage ==
    IF Cardinality(DOMAIN coverage) = 0
    THEN 0
    ELSE Percent(Cardinality(get_covered_attributes), Cardinality(DOMAIN coverage))

\* Mutant of get_coverage_summary: the total is the number of mappings.
get_coverage_summary_per_mapping ==
    LET total == Len(mapping_config)
        covered_count == Cardinality(covered_attributes)
    IN  [total_attributes |-> total,
         covered_count |-> covered_count,
         uncovered_count |-> total - covered_count,
         coverage_percentage |-> IF total > 0 THEN Percent(covered_count, total) ELSE 0]

\* CoverageTracker.get_coverage_summary of the rewrite
get_coverage_summary ==
    LET total == Cardinality(to_be_covered)
        covered_count == Cardinality(covered_attributes)
    IN  [total_attributes |-> total,
         covered_count |-> covered_count,
         uncovered_count |-> total - covered_count,
         coverage_percentage |-> IF total > 0 THEN Percent(covered_count, total) ELSE 0]

\* The tracker under call, read through its accessors.
required == IF tracker_gen = 1 THEN DOMAIN coverage ELSE to_be_covered

covered == IF tracker_gen = 1 THEN get_covered_attributes ELSE covered_attributes

uncovered == IF tracker_gen = 1 THEN get_uncovered_attributes_v1 ELSE get_uncovered_attributes

percentage ==
    IF tracker_gen = 1 THEN get_coverage_percentage ELSE get_coverage_summary.coverage_percentage

\* One observation of a payment ID: the attribute and the MongoDB value resolved for it.
Observation(attribute, mongo_value) == [jsonAttribute |-> attribute, mongoValue |-> mongo_value]

\* The observations of a payment ID, in the order its cycle makes them.
ObservationSeqs ==
    { <<>>,
      <<Observation(<<"a1">>, Str(s_abc)), Observation(<<"a2">>, None)>>,
      <<Observation(<<"a2">>, Str(s_abc)), Observation(<<"zz">>, Str(s_abc))>>,
      <<Observation(<<"a1">>, None), Observation(<<"a1">>, Str(s_empty))>> }

\* Mapping configs of the tracker: empty, one attribute, two attributes, one attribute twice.
TrackerConfigs ==
    { <<>>,
      <<Mapping(<<"a1">>, StrField(<<"m1">>))>>,
      <<Mapping(<<"a1">>, StrField(<<"m1">>)), Mapping(<<"a2">>, StrField(<<"m2">>))>>,
      <<Mapping(<<"a1">>, StrField(<<"m1">>)), Mapping(<<"a1">>, StrField(<<"m2">>))>> }

Call(op, attribute, had_data) == [op |-> op, attribute |-> attribute, had_data |-> had_data]

NoCall == Call("none", <<>>, FALSE)

\* The trackers as constructed for a mapping config, no call made yet.
TrackerConstructed ==
    /\ coverage = coverage_init(mapping_config)
    /\ field_values = field_values_init(mapping_config)
    /\ last_call = NoCall
    /\ covered_before = {}
    /\ tracker_raised = "none"
    /\ close_called = FALSE

\* No tracker under call (Spec, SpecCompare).
ApiIdle ==
    /\ tracker_gen = 2
    /\ pending = <<>>
    /\ observations = <<>>
    /\ TrackerConstructed

\* coverage_tracker.mark_covered(attribute) of the rewrite, for the next observation of a
\* payment ID.
Call_mark_covered ==
    /\ tracker_gen = 2
    /\ \E k \in DOMAIN pending :
        /\ pending[k] # <<>>
        /\ LET o == Head(pending[k]) IN
            /\ covered_attributes' = mark_covered(o.jsonAttribute)
            /\ last_call' = Call("observe", o.jsonAttribute, o.mongoValue.t # "NoneType")
        /\ pending' = [pending EXCEPT ![k] = Tail(@)]
    /\ covered_before' = covered
    /\ tracker_raised' = "none"
    /\ UNCHANGED <<to_be_covered, tracker_gen, coverage, field_values, observations,
                   close_called, runVars, cmpVars, resVars, samplerVars, callVars, diffVars, pipelineVars, flowVars>>

\* coverage_tracker.mark_result(field_result, payment_id) of the first generation, for the
\* next observation of a payment ID.
Call_mark_result ==
    /\ tracker_gen = 1
    /\ \E k \in DOMAIN pending :
        /\ pending[k] # <<>>
        /\ LET o == Head(pending[k])
               after == mark_result(o, k)
           IN  /\ coverage' = after.coverage
               /\ field_values' = after.field_values
               /\ last_call' = Call("observe", o.jsonAttribute, o.mongoValue.t # "NoneType")
        /\ pending' = [pending EXCEPT ![k] = Tail(@)]
    /\ covered_before' = covered
    /\ tracker_raised' = "none"
    /\ UNCHANGED <<trackerVars, tracker_gen, observations, close_called, runVars, cmpVars, resVars, samplerVars, callVars, diffVars, pipelineVars, flowVars>>

\* coverage_tracker.close(): neither CoverageTracker defines close, the call raises
\* AttributeError and the tracker is as before.
Call_close ==
    /\ ~close_called
    /\ close_called' = TRUE
    /\ last_call' = Call("close", <<>>, FALSE)
    /\ covered_before' = covered
    /\ tracker_raised' = "AttributeError"
    /\ UNCHANGED <<trackerVars, tracker_gen, coverage, field_values, pending, observations,
                   runVars, cmpVars, resVars, samplerVars, callVars, diffVars, pipelineVars, flowVars>>

(***************************************************************************)
(* Calls of the path resolvers on bounded documents and paths.             *)
(***************************************************************************)
MaxPathLen == 3

Segments == {"a", "b", "0", "1", SuperscriptTwo}

RECURSIVE PathsOfLen(_)
PathsOfLen(n) ==
    IF n = 0 THEN {<<>>}
    ELSE {Append(p, seg) : p \in PathsOfLen(n - 1), seg \in Segments}

Paths == UNION {PathsOfLen(n) : n \in 0..MaxPathLen}

ObjB(v) == DictV([k \in {"b"} |-> v])

ObjA(v) == DictV([k \in {"a"} |-> v])

Documents ==
    { None,
      DictV(NoFields),
      ObjA(Str(s_abc)),
      ObjA(ListV(<<>>)),
      ObjA(ListV(<<ObjB(IntV(5)), ObjB(IntV(6))>>)),
      ObjA(ListV(<<ListV(<<ObjB(IntV(1))>>)>>)),
      ObjA(ListV(<<ListV(<<IntV(7), IntV(8)>>), ListV(<<IntV(9)>>)>>)),
      ObjA(DictV([k \in {"0", "b"} |-> IF k = "0" THEN IntV(3) ELSE None])),
      ListV(<<ObjA(IntV(1))>>) }

\* No resolver call under way (the other specifications).
ResIdle ==
    /\ res_doc = None
    /\ res_path = <<>>
    /\ resolved = None
    /\ resolver = "none"

\* get_nested_value(res_doc, res_path) of the rewrite.
Call_get_nested_value ==
    /\ resolver = "none"
    /\ resolved' = get_nested_value(res_doc, res_path)
    /\ resolver' = "get_nested_value"
    /\ UNCHANGED <<res_doc, res_path, cmpVars, orchVars, apiVars, samplerVars, callVars, diffVars, pipelineVars, flowVars>>

\* get_nested_value(res_doc, res_path) of the first generation.
Call_get_nested_value_v1 ==
    /\ resolver = "none"
    /\ resolved' = get_nested_value_v1(res_doc, res_path)
    /\ resolver' = "get_nested_value_v1"
    /\ UNCHANGED <<res_doc, res_path, cmpVars, orchVars, apiVars, samplerVars, callVars, diffVars, pipelineVars, flowVars>>

(***************************************************************************)
(* The greedy selection of AggregationBuilder, called on a list of         *)
(* candidate records and the uncovered mappings.  A mongoField is kept as  *)
(* the segments between its dots.                                          *)
(***************************************************************************)
MaxCandidates == 3

payment_id_field == <<"paymentId">>

MongoFields == {<<"f1">>, <<"f2">>, <<"f3">>, <<"f4[]", "x">>}

\* The candidate records: 1 has f1 and f2, 2 has f2 and f3, 3 has f1, f2, f3 and the
\* count the pipeline adds, 4 has no payment ID field, 5 has empty fields and an array of
\* sub-documents.
Candidate(i) ==
    LET id == Str(<<"k", Digits[i + 1]>>)
        v  == Str(<<"v">>)
    IN CASE i = 1 -> DictV([k \in {"paymentId", "f1", "f2"} |->
                        IF k = "paymentId" THEN id ELSE v])
         [] i = 2 -> DictV([k \in {"paymentId", "f2", "f3"} |->
                        IF k = "paymentId" THEN id ELSE v])
         [] i = 3 -> DictV([k \in {"paymentId", "f1", "f2", "f3", "uncoveredFieldCount"} |->
                        CASE k = "paymentId" -> id
                          [] k = "uncoveredFieldCount" -> IntV(3)
                          [] OTHER -> v])
         [] i = 4 -> DictV([k \in {"f1"} |-> v])
         [] OTHER -> DictV([k \in {"paymentId", "f1", "f2", "f3", "f4"} |->
                        CASE k = "paymentId" -> id
                          [] k = "f1" -> Str(s_empty)
                          [] k = "f2" -> ListV(<<>>)
                          [] k = "f3" -> None
                          [] OTHER -> ListV(<<DictV([j \in {"x"} |-> v])>>)])

Records == {Candidate(i) : i \in 1..5}

CandidateLists ==
    {l \in UNION {[1..n -> Records] : n \in 0..MaxCandidates} :
        \A i, j \in DOMAIN l : l[i] = l[j] => i = j}

\* record.get(field) of agg.py: the whole dotted name is one key of the record.
record_get(record, field_path) ==
    IF Len(field_path) = 1 /\ HasKey(record, field_path[1])
    THEN record.fields[field_path[1]]
    ELSE None

RECURSIVE navigate_v1(_, _)
\* The for-loop of _get_field_from_record of Aggfix.py: dicts only.
navigate_v1(current, parts) ==
    IF parts = <<>> THEN current
    ELSE IF current.t = "NoneType" THEN None
    ELSE IF current.t = "dict"
    THEN IF Head(parts) \in DOMAIN current.fields
         THEN navigate_v1(current.fields[Head(parts)], Tail(parts))
         ELSE None
    ELSE None

_get_field_from_record_v1(record, field_path) ==
    IF ~Truthy(record) \/ field_path = <<>> THEN None ELSE navigate_v1(record, field_path)

RECURSIVE navigate(_, _)
\* The for-loop of _get_field_from_record of x.py: an array is entered by its first element.
navigate(current, parts) ==
    IF parts = <<>> THEN current
    ELSE IF current.t = "NoneType" THEN None
    ELSE IF current.t = "list" /\ Len(current.items) = 0 THEN None
    ELSE LET cur == IF current.t = "list" THEN current.items[1] ELSE current IN
         IF cur.t = "dict"
         THEN IF Head(parts) \in DOMAIN cur.fields
              THEN navigate(cur.fields[Head(parts)], Tail(parts))
              ELSE None
         ELSE None

_get_field_from_record(record, field_path) ==
    IF ~Truthy(record) \/ field_path = <<>> THEN None ELSE navigate(record, field_path)

\* original_field.replace('[]', '') of x.py, segment by segment.
cleaned(field) == [i \in DOMAIN field |-> IF field[i] = "f4[]" THEN "f4" ELSE field[i]]

\* The set the selection loop iterates over: uncovered_fields, in x.py
\* uncovered_fields_cleaned.
uncovered_fields ==
    IF sampler = "x" THEN {cleaned(f) : f \in uncovered_mappings} ELSE uncovered_mappings

\* field_mapping of x.py, cleaned name -> original name (no two fields of MongoFields have
\* the same cleaned name).
field_mapping(field) ==
    IF sampler = "x" /\ \E o \in uncovered_mappings : cleaned(o) = field
    THEN CHOOSE o \in uncovered_mappings : cleaned(o) = field
    ELSE field

\* The value the loop reads for a field of the record.
field_value(record, field) ==
    CASE sampler = "agg" -> record_get(record, field)
      [] sampler = "Aggfix" -> _get_field_from_record_v1(record, field)
      [] OTHER -> _get_field_from_record(record, field)

\* "value is not None and value != ''", and from Aggfix.py on "and value != []".
has_data(value) ==
    /\ value # None
    /\ value # Str(s_empty)
    /\ (sampler = "agg" \/ value # ListV(<<>>))

\* new_fields of one iteration, as a set.
new_fields(record) ==
    {field \in uncovered_fields \ covered_fields : has_data(field_value(record, field))}

\* The payment ID read from the record.
record_payment_id(record) ==
    IF sampler = "agg"
    THEN record_get(record, payment_id_field)
    ELSE field_value(record, payment_id_field)

\* Whether the record with these new fields is appended to selected_records.
is_selected(record) ==
    /\ new_fields(record) # {}
    /\ (sampler = "agg" \/ Truthy(record_payment_id(record)))

selected_entry(record) ==
    [paymentId |-> record_payment_id(record),
     coversFields |-> {field_mapping(f) : f \in new_fields(record)},
     totalUncoveredFields |->
        dict_get(record, "uncoveredFieldCount",
                 IntV(IF sampler = "agg" THEN 0 ELSE Cardinality(new_fields(record))))]

NoSelection ==
    [selectedRecords |-> <<>>, coveredCount |-> 0, stillUncoveredCount |-> 0,
     stillUncoveredFields |-> {}]

\* No selection call under way (the other specifications).
SamplerIdle ==
    /\ sampler = "none"
    /\ aggregation_results = <<>>
    /\ uncovered_mappings = {}
    /\ covered_fields = {}
    /\ selected_records = <<>>
    /\ rec_idx = 1
    /\ sel_pc = "idle"
    /\ selection_result = NoSelection

\* select_optimal_records up to its for-loop, in one of its three versions.
Call_select_optimal_records ==
    /\ sel_pc = "idle"
    /\ sampler = "none"
    /\ sampler' \in {"agg", "Aggfix", "x"}
    /\ covered_fields' = {}
    /\ selected_records' = <<>>
    /\ rec_idx' = 1
    /\ sel_pc' = IF aggregation_results = <<>> THEN "after_loop" ELSE "loop"
    /\ UNCHANGED <<aggregation_results, uncovered_mappings, selection_result, cmpVars, orchVars, apiVars, resVars, callVars, diffVars, pipelineVars, flowVars>>

\* One iteration of the for-loop over aggregation_results, with its break.
NextRecord ==
    /\ sel_pc = "loop"
    /\ LET record == aggregation_results[rec_idx] IN
        /\ selected_records' = IF is_selected(record)
                               THEN Append(selected_records, selected_entry(record))
                               ELSE selected_records
        /\ covered_fields' = IF is_selected(record)
                             THEN covered_fields \cup new_fields(record)
                             ELSE covered_fields
    /\ IF Cardinality(covered_fields') = Cardinality(uncovered_fields)
       THEN sel_pc' = "after_loop" /\ rec_idx' = rec_idx
       ELSE /\ rec_idx' = rec_idx + 1
            /\ sel_pc' = IF rec_idx = Len(aggregation_results) THEN "after_loop" ELSE "loop"
    /\ UNCHANGED <<sampler, aggregation_results, uncovered_mappings, selection_result,
                   cmpVars, orchVars, apiVars, resVars, callVars, diffVars, pipelineVars, flowVars>>

\* The statements after the loop: still_uncovered and the returned dict.
ReturnSelection ==
    /\ sel_pc = "after_loop"
    /\ LET still_uncovered == uncovered_fields \ covered_fields IN
        selection_result' =
            [selectedRecords |-> selected_records,
             coveredCount |-> Cardinality(covered_fields),
             stillUncoveredCount |-> Cardinality(still_uncovered),
             stillUncoveredFields |-> {field_mapping(f) : f \in still_uncovered}]
    /\ sel_pc' = "returned"
    /\ UNCHANGED <<sampler, aggregation_results, uncovered_mappings, covered_fields,
                   selected_records, rec_idx, cmpVars, orchVars, apiVars, resVars, callVars, diffVars, pipelineVars, flowVars>>

(***************************************************************************)
(* APIClient.call_api with its TokenManager.  Time is counted in seconds;  *)
(* the token service and the API answer as they like.                      *)
(***************************************************************************)
MaxRetries == 3

MaxCalls == 2

MaxTime == 600

\* What passes between two steps when the clock moves.
TickStep == 150

\* expires_in of the token service's answers.
ExpiresIn == {300, 600}

buffer_time == 5 * 60

CallResult(ok, error, code) == [success |-> ok, error |-> error, statusCode |-> code]

\* TokenManager.is_token_expired at time t.
is_token_expired_always(tok, expiry, t) == TRUE

is_token_expired(tok, expiry, t) ==
    tok = 0 \/ expiry = 0 \/ t + buffer_time >= expiry

\* range(1, max_retries + 1)
attempts(retries) == 1..retries

\* Mutant of unexpected_error: the exception leaves call_api, which returns no dict.
unexpected_error_raised(outcome) == CallResult(FALSE, "not returned", 0)

\* The clause "except Exception" of call_api.
unexpected_error(outcome) == CallResult(FALSE, "Unexpected error", 0)

\* What the 401 branch assigns to token_manager.expiry_time.
expiry_after_401_kept(expiry) == expiry

expiry_after_401(expiry) == 0

NoCallResult == CallResult(FALSE, "not returned", 0)

\* What a get_valid_token call found (token, expiry_time, the time) and what it did.
TokenStep(tok, expiry, t, requested, fresh) ==
    [tok |-> tok, expiry |-> expiry, at |-> t, requested |-> requested, fresh |-> fresh]

NoTokenStep == TokenStep(0, 0, 0, FALSE, FALSE)

\* What requests.post does: a status code, a timeout, a connection error or another
\* exception; a 200 response carries JSON or not.
HttpOutcomes ==
    {"200", "200 invalid JSON", "401", "500", "Timeout", "ConnectionError", "Exception"}

\* No call_api call under way (the other specifications).
CallIdle ==
    /\ token = 0
    /\ expiry_time = 0
    /\ now = 0
    /\ max_retries = MaxRetries
    /\ attempt = 0
    /\ call_pc = "idle"
    /\ call_result = NoCallResult
    /\ http_attempts = 0
    /\ token_requests = 0
    /\ token_step = NoTokenStep
    /\ last_outcome = "none"
    /\ calls_made = 0

\* Time passes.
Tick ==
    /\ now < MaxTime
    /\ now' = now + TickStep
    /\ UNCHANGED <<token, expiry_time, max_retries, attempt, call_pc, call_result,
                   http_attempts, token_requests, token_step, last_outcome, calls_made,
                   cmpVars, orchVars, apiVars, resVars, samplerVars, diffVars, pipelineVars, flowVars>>

\* call_api is called: the for-loop starts, or ends at once when range() is empty.
Call_call_api ==
    /\ call_pc \in {"idle", "returned"}
    /\ calls_made < MaxCalls
    /\ calls_made' = calls_made + 1
    /\ http_attempts' = 0
    /\ token_step' = NoTokenStep
    /\ last_outcome' = "none"
    /\ IF 1 \in attempts(max_retries)
       THEN attempt' = 1 /\ call_pc' = "token" /\ call_result' = NoCallResult
       ELSE /\ attempt' = 0
            /\ call_pc' = "returned"
            /\ call_result' = CallResult(FALSE, "Max retries exceeded", 0)
    /\ UNCHANGED <<token, expiry_time, now, max_retries, token_requests,
                   cmpVars, orchVars, apiVars, resVars, samplerVars, diffVars, pipelineVars, flowVars>>

\* One attempt, first half: token_manager.get_valid_token().  An expired or missing token
\* is requested from the token service (get_token), which answers with a token and its
\* expires_in or fails; a failure makes call_api return.
GetValidToken ==
    /\ call_pc = "token"
    /\ LET expired == is_token_expired(token, expiry_time, now) IN
        IF expired
        THEN /\ token_requests' = token_requests + 1
             /\ \/ \E expires_in \in ExpiresIn :
                    /\ token' = token_requests + 1
                    /\ expiry_time' = now + expires_in
                    /\ call_pc' = "post"
                    /\ call_result' = call_result
                    /\ token_step' = TokenStep(token, expiry_time, now, TRUE, TRUE)
                \/ /\ UNCHANGED <<token, expiry_time, diffVars, pipelineVars, flowVars>>
                   /\ call_pc' = "returned"
                   /\ call_result' = CallResult(FALSE, "Failed to get valid token", 0)
                   /\ token_step' = TokenStep(token, expiry_time, now, TRUE, FALSE)
        ELSE /\ UNCHANGED <<token, expiry_time, token_requests, call_result, diffVars, pipelineVars, flowVars>>
             /\ call_pc' = "post"
             /\ token_step' = TokenStep(token, expiry_time, now, FALSE, FALSE)
    /\ UNCHANGED <<now, max_retries, attempt, http_attempts, last_outcome, calls_made,
                   cmpVars, orchVars, apiVars, resVars, samplerVars, diffVars, pipelineVars, flowVars>>

\* "continue": the next attempt, or the return after the loop when range() is used up.
Continue ==
    /\ attempt' = attempt + 1
    /\ IF (attempt + 1) \in attempts(max_retries)
       THEN call_pc' = "token" /\ call_result' = call_result
       ELSE /\ call_pc' = "returned"
            /\ call_result' = CallResult(FALSE, "Max retries exceeded", 0)

\* One attempt, second half: requests.post and the branches on its outcome.
Post ==
    /\ call_pc = "post"
    /\ http_attempts' = http_attempts + 1
    /\ \E outcome \in HttpOutcomes :
        /\ last_outcome' = outcome
        /\ LET retry == attempt < max_retries IN
           CASE outcome = "200" ->
                   /\ call_result' = CallResult(TRUE, "none", 200)
                   /\ call_pc' = "returned"
                   /\ UNCHANGED <<expiry_time, attempt, now, diffVars, pipelineVars, flowVars>>
             [] outcome = "200 invalid JSON" ->
                   /\ call_result' = CallResult(FALSE, "Invalid JSON response", 200)
                   /\ call_pc' = "returned"
                   /\ UNCHANGED <<expiry_time, attempt, now, diffVars, pipelineVars, flowVars>>
             [] outcome = "401" ->
                   /\ expiry_time' = expiry_after_401(expiry_time)
                   /\ now' = now
                   /\ IF retry
                      THEN Continue
                      ELSE /\ attempt' = attempt
                           /\ call_pc' = "returned"
                           /\ call_result' =
                               CallResult(FALSE, "Authentication failed after token refresh", 401)
             [] outcome = "500" ->
                   /\ call_result' = CallResult(FALSE, "HTTP 500", 500)
                   /\ call_pc' = "returned"
                   /\ UNCHANGED <<expiry_time, attempt, now, diffVars, pipelineVars, flowVars>>
             [] outcome \in {"Timeout", "ConnectionError"} ->
                   /\ expiry_time' = expiry_time
                   /\ IF retry
                      THEN now' = now + 2 * attempt /\ Continue
                      ELSE /\ attempt' = attempt
                           /\ now' = now
                           /\ call_pc' = "returned"
                           /\ call_result' = CallResult(FALSE, outcome, 0)
             [] OTHER ->
                   /\ call_result' = unexpected_error(outcome)
                   /\ call_pc' = "returned"
                   /\ UNCHANGED <<expiry_time, attempt, now, diffVars, pipelineVars, flowVars>>
    /\ UNCHANGED <<token, max_retries, token_requests, token_step, calls_made,
                   cmpVars, orchVars, apiVars, resVars, samplerVars, diffVars, pipelineVars, flowVars>>

(***************************************************************************)
(* Comparator.compare_json_diff of the first generation (jmd.py): the two  *)
(* responses are compared at the mapped attributes only, as strings.       *)
(***************************************************************************)
\* str(val) if val is not None else ""
str_or_empty(val) == IF val.t = "NoneType" THEN <<>> ELSE py_str(val)

\* The keys of the local differences after the loop over mapping_config.
differences(config, java8_resp, java21_resp) ==
    {i \in 1..Len(config) :
        str_or_empty(get_nested_value_v1(java8_resp, config[i]))
            # str_or_empty(get_nested_value_v1(java21_resp, config[i]))}

\* An exception out of the loop reaches the except clause of compare_json_diff.
diff_raises(config, java8_resp, java21_resp) ==
    \E i \in 1..Len(config) :
        \/ get_nested_value_v1(java8_resp, config[i]).t = "raise"
        \/ get_nested_value_v1(java21_resp, config[i]).t = "raise"

compare_json_diff_v1(config, java8_resp, java21_resp) ==
    IF diff_raises(config, java8_resp, java21_resp) THEN "ERROR"
    ELSE IF differences(config, java8_resp, java21_resp) # {} THEN "FAIL"
    ELSE "PASS"

ObjAB(va, vb) == DictV([k \in {"a", "b"} |-> IF k = "a" THEN va ELSE vb])

\* The responses handed to compare_json_diff.
Responses ==
    { DictV(NoFields),
      ObjA(IntV(1)),
      ObjA(Str(<<"1">>)),
      ObjA(None),
      ObjA(Str(<<>>)),
      ObjA(ObjB(IntV(1))),
      ObjA(ObjB(IntV(2))),
      ObjAB(IntV(1), IntV(1)),
      ObjAB(IntV(1), IntV(2)) }

\* The jsonAttribute of each mapping of the config.
DiffMappingConfigs ==
    { <<>>, << <<"a">> >>, << <<"a">>, <<"a", "b">> >>, << <<"a", SuperscriptTwo>> >> }

\* No compare_json_diff call under way (the other specifications).
DiffIdle ==
    /\ diff_java8 = None
    /\ diff_java21 = None
    /\ diff_mapping_config = <<>>
    /\ diff_gen = "none"
    /\ diff_status = "none"

\* compare_json_diff(diff_java8, diff_java21) of jmd.py.
Call_compare_json_diff_v1 ==
    /\ diff_gen = "none"
    /\ diff_status' = compare_json_diff_v1(diff_mapping_config, diff_java8, diff_java21)
    /\ diff_gen' = "jmd.py"
    /\ UNCHANGED <<diff_java8, diff_java21, diff_mapping_config,
                   cmpVars, orchVars, apiVars, resVars, samplerVars, callVars, pipelineVars, flowVars>>

\* compare_json_diff(diff_java8, diff_java21) of the rewrite (DeepDiff).
Call_compare_json_diff ==
    /\ diff_gen = "none"
    /\ diff_status' = compare_json_diff(diff_java8, diff_java21)
    /\ diff_gen' = "new.py"
    /\ UNCHANGED <<diff_java8, diff_java21, diff_mapping_config,
                   cmpVars, orchVars, apiVars, resVars, samplerVars, callVars, pipelineVars, flowVars>>

(***************************************************************************)
(* AggregationBuilder.build_pipeline, and the pipeline it builds run by    *)
(* MongoDB on a collection (MongoDBClient.execute_aggregation).  The       *)
(* mongoFields are top-level names.                                        *)
(***************************************************************************)
MaxDocs == 2

\* The default of the argument limit.
limit == 100

\* What '$field' evaluates to in an aggregation expression on a document without the field.
Missing == [t |-> "missing", s |-> <<>>, n |-> 0, items |-> <<>>, fields |-> NoFields]

\* _get_field_reference: f"${field_path}", evaluated on a document.
_get_field_reference(doc, field) == IF HasKey(doc, field) THEN doc.fields[field] ELSE Missing

\* One element of match_conditions on a document.  The dict literal holds the key '$ne'
\* twice, so Python keeps {'$exists': True, '$ne': ""}.
match_condition(doc, field) == HasKey(doc, field) /\ doc.fields[field] # Str(<<>>)

\* One element of count_expressions of agg.py on a document.
count_expression_v1(doc, field) ==
    LET ref == _get_field_reference(doc, field) IN
    IF ref # None /\ ref # Str(<<>>) THEN 1 ELSE 0

\* One element of count_expressions of Removeprooject.py and x.py on a document.
count_expression(doc, field) ==
    LET ref == _get_field_reference(doc, field) IN
    IF ref # None /\ ref # Str(<<>>) /\ ref # ListV(<<>>) THEN 1 ELSE 0

RECURSIVE add(_, _, _, _)
\* '$add' over the count expressions of the fields from position i on.
add(doc, fields, version, i) ==
    IF i > Len(fields) THEN 0
    ELSE (IF version = "agg.py"
          THEN count_expression_v1(doc, fields[i])
          ELSE count_expression(doc, fields[i]))
         + add(doc, fields, version, i + 1)

\* '$addFields': the document with its uncoveredFieldCount.
addFields(doc, fields, version) ==
    DictV([k \in DOMAIN doc.fields \cup {"uncoveredFieldCount"} |->
            IF k = "uncoveredFieldCount" THEN IntV(add(doc, fields, version, 1))
            ELSE doc.fields[k]])

RECURSIVE sort(_, _)
\* '$sort' by uncoveredFieldCount, descending from count c; equal counts keep their order.
sort(docs, c) ==
    IF c < 0 THEN <<>>
    ELSE SelectSeq(docs, LAMBDA d : d.fields["uncoveredFieldCount"].n = c) \o sort(docs, c - 1)

\* '$project' of agg.py and x.py: the payment ID, the count and the uncovered fields.
project(doc, fields) ==
    LET keep == {payment_id_field[1], "uncoveredFieldCount"}
                    \cup {fields[i] : i \in DOMAIN fields}
    IN  DictV([k \in DOMAIN doc.fields \cap keep |-> doc.fields[k]])

\* The documents the pipeline of a version returns for a collection.
aggregate(docs, fields, version) ==
    LET matched == SelectSeq(docs, LAMBDA d : \E i \in DOMAIN fields : match_condition(d, fields[i]))
        counted == [i \in DOMAIN matched |-> addFields(matched[i], fields, version)]
        kept    == IF version = "agg.py" THEN counted
                   ELSE SelectSeq(counted, LAMBDA d : d.fields["uncoveredFieldCount"].n > 0)
        sorted  == sort(kept, Len(fields))
        limited == IF Len(sorted) > limit THEN SubSeq(sorted, 1, limit) ELSE sorted
    IN  IF version = "Removeprooject.py" THEN limited
        ELSE [i \in DOMAIN limited |-> project(limited[i], fields)]

\* The documents a collection can hold: 1 has f1, 2 has f1 null, 3 has f1 empty, 4 has f2
\* an empty array, 5 has f1 and f2, 6 has neither.
StoreDoc(i) ==
    LET v == Str(<<"v">>)
        f == CASE i = 1 -> [k \in {"f1"} |-> v]
               [] i = 2 -> [k \in {"f1"} |-> None]
               [] i = 3 -> [k \in {"f1"} |-> Str(<<>>)]
               [] i = 4 -> [k \in {"f2"} |-> ListV(<<>>)]
               [] i = 5 -> [k \in {"f1", "f2"} |-> v]
               [] OTHER -> NoFields
    IN  DictV([k \in DOMAIN f \cup {"paymentId", "other"} |->
                CASE k = "paymentId" -> Str(<<"k", Digits[i + 1]>>)
                  [] k = "other" -> v
                  [] OTHER -> f[k]])

Collections ==
    {l \in UNION {[1..n -> {StoreDoc(i) : i \in 1..6}] : n \in 0..MaxDocs} :
        \A i, j \in DOMAIN l : l[i] = l[j] => i = j}

\* The mongoFields of the uncovered mappings (_run_phase2 returns before build_pipeline
\* when there is none).
UncoveredFieldLists == {<<"f1">>, <<"f2">>, <<"f1", "f2">>}

\* No aggregation under way (the other specifications).
PipelineIdle ==
    /\ collection = <<>>
    /\ pipeline_mappings = <<>>
    /\ pipeline_gen = "none"
    /\ candidates = <<>>

\* build_pipeline of agg.py and execute_aggregation: no stage filters on the count.
Aggregate_agg ==
    /\ pipeline_gen = "none"
    /\ candidates' = aggregate(collection, pipeline_mappings, "agg.py")
    /\ pipeline_gen' = "agg.py"
    /\ UNCHANGED <<collection, pipeline_mappings,
                   cmpVars, orchVars, apiVars, resVars, samplerVars, callVars, diffVars, flowVars>>

\* build_pipeline of Removeprooject.py: counts of 0 are filtered out, no $project.
Aggregate_Removeprooject ==
    /\ pipeline_gen = "none"
    /\ candidates' = aggregate(collection, pipeline_mappings, "Removeprooject.py")
    /\ pipeline_gen' = "Removeprooject.py"
    /\ UNCHANGED <<collection, pipeline_mappings,
                   cmpVars, orchVars, apiVars, resVars, samplerVars, callVars, diffVars, flowVars>>

\* build_pipeline of x.py: counts of 0 are filtered out, top-level objects projected.
Aggregate_x ==
    /\ pipeline_gen = "none"
    /\ candidates' = aggregate(collection, pipeline_mappings, "x.py")
    /\ pipeline_gen' = "x.py"
    /\ UNCHANGED <<collection, pipeline_mappings,
                   cmpVars, orchVars, apiVars, resVars, samplerVars, callVars, diffVars, flowVars>>

(***************************************************************************)
(* TestOrchestrator.run of the rewrite: run_phase_1, run_phase_2 and       *)
(* generate_reports, with test_single_payment_id as one step.  A payment   *)
(* ID is a positive number; 0 stands for None.                             *)
(***************************************************************************)
\* Mutant of error_result: the exception leaves test_single_payment_id.
error_result_raised(res, error) == [res EXCEPT !.error = "raised"]

\* The except clause of test_single_payment_id: the error is kept in the result.
error_result(res, error) == [res EXCEPT !.error = error]

\* coverage_tracker.mark_covered(attribute) on a covered set.
covered_after(cov, attribute) ==
    IF attribute \in to_be_covered THEN cov \cup {attribute} ELSE cov

RECURSIVE compare_attributes(_, _, _, _, _)
\* Step 6 of test_single_payment_id from the attributes not yet reached; acc holds the
\* covered set, the attribute results and the result dict so far.
compare_attributes(attrs, mdoc, java21_response, java8_response, acc) ==
    IF attrs = <<>> THEN [acc EXCEPT !.result.success = TRUE]
    ELSE LET attribute == Head(attrs) IN
        IF attribute \notin DOMAIN json_to_mongo_map
        THEN compare_attributes(Tail(attrs), mdoc, java21_response, java8_response, acc)
        ELSE LET mongo_field == json_to_mongo_map[attribute] IN
            IF mongo_field.t # "str"
            THEN [acc EXCEPT !.result = error_result(@, "AttributeError")]
            ELSE LET mongo_value == get_nested_value(mdoc, mongo_field.path)
                     java21_value == get_nested_value(java21_response, attribute)
                     java8_value == IF Truthy(java8_response)
                                    THEN get_nested_value(java8_response, attribute)
                                    ELSE None
                     attr_status == compare_values(mongo_value, java21_value, java8_value)
                 IN  compare_attributes(Tail(attrs), mdoc, java21_response, java8_response,
                        [covered |-> covered_after(acc.covered, attribute),
                         results |->
                            Append(acc.results,
                                   [paymentId |-> acc.result.paymentId,
                                    attributeName |-> attribute,
                                    mongoField |-> mongo_field.path,
                                    mongoValue |-> or_empty(mongo_value),
                                    java21Value |-> or_empty(java21_value),
                                    java8Value |-> or_empty(java8_value),
                                    status |-> attr_status]),
                         diffs |-> acc.diffs,
                         result |->
                            [acc.result EXCEPT
                                !.tested_count = @ + 1,
                                !.passed = IF attr_status = "PASS" THEN @ + 1 ELSE @,
                                !.failed = IF attr_status = "PASS" THEN @ ELSE @ + 1]])

\* test_single_payment_id(pid), given what MongoDB and the two services answered: the
\* result dict and the orchestrator's covered set, attribute results and diff results.
test_single_payment_id(pid, mres, j21res, j8res) ==
    LET start == [covered |-> covered_attributes,
                  results |-> attribute_results,
                  diffs |-> json_diff_results,
                  result |-> [NoTestResult EXCEPT !.paymentId = pid]]
    IN  IF ~mres.success THEN [start EXCEPT !.result.error = mres.error]
        ELSE IF ~j21res.success THEN [start EXCEPT !.result.error = j21res.error]
        ELSE LET java8_response == IF has_java8 /\ j8res.success THEN j8res.data ELSE None
                 diffs == IF has_java8 /\ Truthy(java8_response)
                          THEN Append(json_diff_results,
                                      [paymentId |-> pid,
                                       status |-> compare_json_diff(java8_response, j21res.data)])
                          ELSE json_diff_results
             IN  compare_attributes(extract_all_attributes(j21res.data, <<>>), mres.data,
                                    j21res.data, java8_response, [start EXCEPT !.diffs = diffs])

\* MongoDBClient.find_by_payment_id on the collection.
find_by_payment_id(docs, pid) ==
    LET hits == SelectSeq(docs, LAMBDA d : HasKey(d, payment_id_field[1])
                                            /\ d.fields[payment_id_field[1]] = IntV(pid))
    IN  IF hits # <<>> THEN Result(TRUE, hits[1], NoError)
        ELSE Result(FALSE, None, "No document found")

\* The query of find_one_with_field of new.py on a document: the dict literal holds '$ne'
\* twice, so Python keeps {'$exists': True, '$ne': ""}.
field_query(doc, field) == HasKey(doc, field) /\ doc.fields[field] # Str(<<>>)

\* The query of find_one_with_field of Null.py on a document.
field_query_v2(doc, field) ==
    HasKey(doc, field) /\ doc.fields[field] \notin {None, Str(<<>>), ListV(<<>>)}

\* MongoDBClient.find_one_with_field: the payment ID of the first document matching the
\* query, or None (0).  A mongoField that is not a string raises in field_name.replace, and
\* the except clause returns None.
find_one_with_field(docs, mongo_field, version) ==
    IF mongo_field.t # "str" THEN 0
    ELSE LET hits == SelectSeq(docs, LAMBDA d :
                        IF version = "new.py"
                        THEN field_query(d, mongo_field.path[1])
                        ELSE field_query_v2(d, mongo_field.path[1]))
         IN  IF hits # <<>> /\ HasKey(hits[1], payment_id_field[1])
             THEN hits[1].fields[payment_id_field[1]].n
             ELSE 0

\* Mutant of add_payment_id: the payment ID is queued without looking at the queue.
add_payment_id_again(ids, pid) == Append(ids, pid)

\* run_phase_2: if payment_id not in payment_ids_to_test: payment_ids_to_test.add(payment_id)
add_payment_id(ids, pid) ==
    IF \E i \in DOMAIN ids : ids[i] = pid THEN ids ELSE Append(ids, pid)

\* CoverageTracker.get_uncovered_mappings
get_uncovered_mappings ==
    SelectSeq(mapping_config, LAMBDA m : m.jsonAttribute \in get_uncovered_attributes)

\* The documents of the collection: 1 has m1 and m2, 2 has m2 and a null m3, 3 has m1 and
\* no payment ID.
RunDoc(i) ==
    CASE i = 1 -> DictV([k \in {"paymentId", "m1", "m2"} |->
                    IF k = "paymentId" THEN IntV(1) ELSE Str(s_abc)])
      [] i = 2 -> DictV([k \in {"paymentId", "m2", "m3"} |->
                    CASE k = "paymentId" -> IntV(2)
                      [] k = "m2" -> Str(s_abc)
                      [] OTHER -> None])
      [] OTHER -> DictV([k \in {"m1"} |-> Str(s_abc)])

RunCollections ==
    {<<>>, <<RunDoc(1)>>, <<RunDoc(1), RunDoc(2)>>, <<RunDoc(3), RunDoc(1)>>}

\* The mapping configs of a run: three attributes, or a mongoField that is not a string.
RunMappingConfigs ==
    { <<Mapping(<<"a1">>, StrField(<<"m1">>)), Mapping(<<"a2">>, StrField(<<"m2">>)),
        Mapping(<<"a3">>, StrField(<<"m3">>))>>,
      <<Mapping(<<"a1">>, ListField), Mapping(<<"a2">>, StrField(<<"m2">>))>> }

\* testPaymentIds of a run; no document holds payment ID 9.
TestPaymentIdLists == {<<>>, <<1>>, <<9, 1>>}

\* What the Java 21 service answers: a failure, a1 and a2 only, a3 as well, a3 null.
RunJava21Results ==
    { Result(FALSE, None, "HTTP 500"),
      Result(TRUE, DictV([k \in {"a1", "a2"} |-> Str(s_abc)]), NoError),
      Result(TRUE, DictV([k \in {"a1", "a2", "a3"} |-> Str(s_abc)]), NoError),
      Result(TRUE, DictV([k \in {"a1", "a2", "a3"} |->
                            IF k = "a3" THEN None ELSE Str(s_abc)]), NoError) }

NoReport == [generated |-> FALSE, uncovered_attributes |-> <<>>, error |-> FALSE]

\* No run under way (the other specifications).
FlowIdle ==
    /\ run_pc = "idle"
    /\ run_collection = <<>>
    /\ finder = "none"
    /\ test_payment_ids = <<>>
    /\ p2_uncovered = <<>>
    /\ query_idx = 0
    /\ payment_ids_to_test = <<>>
    /\ to_test = {}
    /\ report = NoReport
    /\ query_log = <<>>
    /\ scheduled = <<>>

\* The orchestrator after test_single_payment_id(pid) returned 'out'.
Tested(pid, mres, j21res, j8res, out) ==
    /\ covered_attributes' = out.covered
    /\ attribute_results' = out.results
    /\ json_diff_results' = out.diffs
    /\ test_result' = out.result
    /\ mongo_result' = mres
    /\ java21_result' = IF mres.success THEN j21res ELSE NotCalled
    /\ java8_result' = IF mres.success /\ j21res.success THEN j8res ELSE NotCalled
    /\ tested_payment_ids' = tested_payment_ids \cup {pid}

\* run_phase_1, one iteration: the next configured payment ID is tested and recorded.
TestConfiguredKey ==
    /\ run_pc = "phase1"
    /\ idx < Len(test_payment_ids)
    /\ \E j21res \in RunJava21Results,
          j8res \in IF has_java8 THEN Java8Results ELSE {NotCalled} :
        LET pid == test_payment_ids[idx + 1]
            mres == find_by_payment_id(run_collection, pid)
            out == test_single_payment_id(pid, mres, j21res, j8res)
        IN  /\ Tested(pid, mres, j21res, j8res, out)
            /\ run_pc' = IF out.result.error = "raised" THEN "raised" ELSE "phase1"
    /\ idx' = idx + 1
    /\ UNCHANGED <<has_java8, mapping_config, to_be_covered, pc,
                   response_attributes, covered_at_start, run_collection, finder,
                   test_payment_ids, p2_uncovered, query_idx, payment_ids_to_test, to_test,
                   report, query_log, scheduled,
                   cmpVars, apiVars, resVars, samplerVars, callVars, diffVars, pipelineVars>>

\* run_phase_1 returns (no payment ID configured, or the loop is over); run_phase_2 starts
\* and reads the uncovered mappings.
StartPhase2 ==
    /\ run_pc = "phase1"
    /\ idx = Len(test_payment_ids)
    /\ p2_uncovered' = get_uncovered_mappings
    /\ run_pc' = IF get_uncovered_mappings = <<>> THEN "reports" ELSE "queries"
    /\ UNCHANGED <<orchVars, run_collection, finder, test_payment_ids, query_idx,
                   payment_ids_to_test, to_test, report, query_log, scheduled,
                   cmpVars, apiVars, resVars, samplerVars, callVars, diffVars, pipelineVars>>

\* run_phase_2, one iteration of the query loop: find_one_with_field for the next uncovered
\* mapping.  A query that raises is logged by find_one_with_field, which returns None.
QueryField ==
    /\ run_pc = "queries"
    /\ query_idx < Len(p2_uncovered)
    /\ \E raises \in BOOLEAN :
        LET mongo_field == p2_uncovered[query_idx + 1].mongoField
            pid == IF raises THEN 0
                   ELSE find_one_with_field(run_collection, mongo_field, finder)
        IN  /\ payment_ids_to_test' =
                    IF pid # 0 THEN add_payment_id(payment_ids_to_test, pid)
                    ELSE payment_ids_to_test
            /\ query_log' = Append(query_log,
                                   [mongo_field |-> mongo_field,
                                    raised |-> IF mongo_field.t # "str" THEN "AttributeError"
                                               ELSE IF raises THEN "PyMongoError"
                                               ELSE "none",
                                    returned |-> pid])
    /\ query_idx' = query_idx + 1
    /\ UNCHANGED <<orchVars, run_pc, run_collection, finder, test_payment_ids, p2_uncovered,
                   to_test, report, scheduled,
                   cmpVars, apiVars, resVars, samplerVars, callVars, diffVars, pipelineVars>>

\* run_phase_2 after the query loop: it returns when no payment ID was found, else the test
\* loop starts.
EndQueries ==
    /\ run_pc = "queries"
    /\ query_idx = Len(p2_uncovered)
    /\ to_test' = DOMAIN payment_ids_to_test
    /\ run_pc' = IF payment_ids_to_test = <<>> THEN "reports" ELSE "tests"
    /\ UNCHANGED <<orchVars, run_collection, finder, test_payment_ids, p2_uncovered, query_idx,
                   payment_ids_to_test, report, query_log, scheduled,
                   cmpVars, apiVars, resVars, samplerVars, callVars, diffVars, pipelineVars>>

\* run_phase_2, one iteration of the test loop; a set is iterated in no particular order.
TestFoundKey ==
    /\ run_pc = "tests"
    /\ \E i \in to_test, j21res \in RunJava21Results,
          j8res \in IF has_java8 THEN Java8Results ELSE {NotCalled} :
        LET pid == payment_ids_to_test[i]
            mres == find_by_payment_id(run_collection, pid)
            out == test_single_payment_id(pid, mres, j21res, j8res)
        IN  /\ Tested(pid, mres, j21res, j8res, out)
            /\ scheduled' = Append(scheduled, pid)
            /\ to_test' = to_test \ {i}
            /\ run_pc' = IF out.result.error = "raised" THEN "raised"
                         ELSE IF to_test = {i} THEN "reports" ELSE "tests"
    /\ UNCHANGED <<has_java8, mapping_config, to_be_covered, idx, pc,
                   response_attributes, covered_at_start, run_collection, finder,
                   test_payment_ids, p2_uncovered, query_idx, payment_ids_to_test,
                   report, query_log,
                   cmpVars, apiVars, resVars, samplerVars, callVars, diffVars, pipelineVars>>

\* generate_reports: the uncovered mappings and the attribute results go to the reporter; a
\* reporter that raises is logged.  Then print_final_summary, and run returns True.
GenerateReports ==
    /\ run_pc = "reports"
    /\ \E reporter_raises \in BOOLEAN :
        report' = IF reporter_raises THEN [NoReport EXCEPT !.error = TRUE]
                  ELSE [generated |-> TRUE,
                        uncovered_attributes |->
                            [i \in DOMAIN get_uncovered_mappings |->
                                get_uncovered_mappings[i].jsonAttribute],
                        error |-> FALSE]
    /\ run_pc' = "done"
    /\ UNCHANGED <<orchVars, run_collection, finder, test_payment_ids, p2_uncovered, query_idx,
                   payment_ids_to_test, to_test, query_log, scheduled,
                   cmpVars, apiVars, resVars, samplerVars, callVars, diffVars, pipelineVars>>

(***************************************************************************)
(* Comparator calls on bounded inputs: Init draws the three values, the    *)
(* outcome of the two service calls and the declared type; each action is  *)
(* one call of a comparator entry point.                                   *)
(***************************************************************************)
MaxListLen == 2

ListOf(len) == ListV([i \in 1..len |-> Str(s_abc)])

Values ==
    {None} \cup {Str(cs) : cs \in StrLits}
           \cup {IntV(7), FloatV(7 * Scale), FloatV(105 * (Scale \div 10))}
           \cup {ListOf(len) : len \in 0..MaxListLen}

DataTypes == {"String", "Decimal128"}

fld == <<"fld">>

TheMapping(dtype) == [mongoField |-> fld, jsonAttribute |-> fld, mongoType |-> dtype]

\* A document holding value v at the mapped path.
Doc(v) == DictV([k \in {"fld"} |-> v])

\* What the orchestrator hands to compare_field for a failed call: the call's result dict.
ErrorDoc ==
    DictV([k \in {"success", "data", "error", "statusCode"} |->
            CASE k = "success" -> BoolV(FALSE)
              [] k = "error" -> Str(<<"HTTP 500">>)
              [] OTHER -> None])

cmp_java21_response == IF call2 = "ok" THEN Doc(value2) ELSE ErrorDoc

cmp_java8_response ==
    CASE call3 = "ok" -> Doc(value3)
      [] call3 = "failed" -> ErrorDoc
      [] OTHER -> None

NoVerdict == Verdict(FALSE, "PENDING", "PENDING")

NoFieldResult == [status |-> "PENDING"]

CmpInit ==
    /\ phase = "ready"
    /\ value1 \in Values
    /\ call2 \in {"ok", "failed"}
    /\ value2 \in (IF call2 = "ok" THEN Values ELSE {None})
    /\ call3 \in {"ok", "failed", "absent"}
    /\ value3 \in (IF call3 = "ok" THEN Values ELSE {None})
    /\ data_type \in DataTypes
    /\ result = NoVerdict
    /\ status = "PENDING"
    /\ field_result = NoFieldResult
    /\ has_java8 = FALSE
    /\ mapping_config = <<>>
    /\ Constructed
    /\ ApiIdle
    /\ ResIdle
    /\ SamplerIdle
    /\ FlowIdle
    /\ PipelineIdle
    /\ DiffIdle
    /\ CallIdle

\* Comparator._compare_values(value1, value2, data_type) on two resolved values.
Call_compare_values_v1 ==
    /\ phase = "ready"
    /\ call2 = "ok"
    /\ result' = _compare_values(value1, value2, data_type)
    /\ phase' = "_compare_values"
    /\ UNCHANGED <<value1, value2, value3, call2, call3, data_type, status, field_result,
                   orchVars, apiVars, resVars, samplerVars, callVars, diffVars, pipelineVars, flowVars>>

\* Comparator.compare_values(mongo_value, java21_value, java8_value) of the rewrite.
Call_compare_values ==
    /\ phase = "ready"
    /\ call2 = "ok"
    /\ call3 \in {"ok", "absent"}
    /\ status' = compare_values(value1, value2, value3)
    /\ phase' = "compare_values"
    /\ UNCHANGED <<value1, value2, value3, call2, call3, data_type, result, field_result,
                   orchVars, apiVars, resVars, samplerVars, callVars, diffVars, pipelineVars, flowVars>>

\* Comparator.compare_field on the store record and the two service responses.
Call_compare_field ==
    /\ phase = "ready"
    /\ field_result' = compare_field(Doc(value1), cmp_java21_response, cmp_java8_response,
                                     TheMapping(data_type))
    /\ phase' = "compare_field"
    /\ UNCHANGED <<value1, value2, value3, call2, call3, data_type, result, status,
                   orchVars, apiVars, resVars, samplerVars, callVars, diffVars, pipelineVars, flowVars>>

CmpNext == Call_compare_values_v1 \/ Call_compare_values \/ Call_compare_field

SpecCompare == CmpInit /\ [][CmpNext]_vars

(***************************************************************************)
(* Phase 1 of a run of the rewrite: the configured payment IDs are tested  *)
(* one after the other.  The comparator inputs of SpecCompare stay idle.   *)
(***************************************************************************)
\* No comparator call under way.
CmpIdle ==
    /\ phase = "ready"
    /\ value1 = None
    /\ value2 = None
    /\ value3 = None
    /\ call2 = "ok"
    /\ call3 = "absent"
    /\ data_type = "String"
    /\ result = NoVerdict
    /\ status = "PENDING"
    /\ field_result = NoFieldResult

Init ==
    /\ has_java8 \in BOOLEAN
    /\ mapping_config \in MappingConfigs
    /\ Constructed
    /\ ApiIdle
    /\ ResIdle
    /\ SamplerIdle
    /\ FlowIdle
    /\ PipelineIdle
    /\ DiffIdle
    /\ CallIdle
    /\ CmpIdle

Next ==
    \/ StartKey
    \/ QueryMongo
    \/ CallJava21
    \/ CallJava8
    \/ ParseResponse
    \/ SkipAttribute
    \/ CompareAttribute
    \/ LoopRaises
    \/ FinishLoop
    \/ KeyTested

Spec == Init /\ [][Next]_vars

(***************************************************************************)
(* A coverage tracker under the observations of the payment IDs, which     *)
(* reach it one call at a time in any interleaving.                        *)
(***************************************************************************)
TrackerInit ==
    /\ tracker_gen \in {1, 2}
    /\ mapping_config \in TrackerConfigs
    /\ has_java8 = FALSE
    /\ Constructed
    /\ TrackerConstructed
    /\ observations \in [1..MaxKeys -> ObservationSeqs]
    /\ pending = observations
    /\ ResIdle
    /\ SamplerIdle
    /\ FlowIdle
    /\ PipelineIdle
    /\ DiffIdle
    /\ CallIdle
    /\ CmpIdle

TrackerNext == Call_mark_covered \/ Call_mark_result \/ Call_close

SpecTracker == TrackerInit /\ [][TrackerNext]_vars

(***************************************************************************)
(* A path resolver called on a document and a path.                        *)
(***************************************************************************)
ResInit ==
    /\ res_doc \in Documents
    /\ res_path \in Paths
    /\ resolved = None
    /\ resolver = "none"
    /\ SamplerIdle
    /\ FlowIdle
    /\ PipelineIdle
    /\ DiffIdle
    /\ CallIdle
    /\ has_java8 = FALSE
    /\ mapping_config = <<>>
    /\ Constructed
    /\ ApiIdle
    /\ CmpIdle

ResNext == Call_get_nested_value \/ Call_get_nested_value_v1

SpecResolve == ResInit /\ [][ResNext]_vars

(***************************************************************************)
(* select_optimal_records called on a list of candidate records.           *)
(***************************************************************************)
SamplerInit ==
    /\ sampler = "none"
    /\ aggregation_results \in CandidateLists
    /\ uncovered_mappings \in SUBSET MongoFields
    /\ covered_fields = {}
    /\ selected_records = <<>>
    /\ rec_idx = 1
    /\ sel_pc = "idle"
    /\ selection_result = NoSelection
    /\ has_java8 = FALSE
    /\ mapping_config = <<>>
    /\ Constructed
    /\ ApiIdle
    /\ ResIdle
    /\ CmpIdle
    /\ CallIdle
    /\ DiffIdle
    /\ PipelineIdle
    /\ FlowIdle

SamplerNext == Call_select_optimal_records \/ NextRecord \/ ReturnSelection

SpecSampler == SamplerInit /\ [][SamplerNext]_vars

(***************************************************************************)
(* call_api called up to MaxCalls times on one APIClient.                  *)
(***************************************************************************)
CallInit ==
    /\ token = 0
    /\ expiry_time = 0
    /\ now = 0
    /\ max_retries \in 0..MaxRetries
    /\ attempt = 0
    /\ call_pc = "idle"
    /\ call_result = NoCallResult
    /\ http_attempts = 0
    /\ token_requests = 0
    /\ token_step = NoTokenStep
    /\ last_outcome = "none"
    /\ calls_made = 0
    /\ has_java8 = FALSE
    /\ mapping_config = <<>>
    /\ Constructed
    /\ ApiIdle
    /\ ResIdle
    /\ SamplerIdle
    /\ FlowIdle
    /\ PipelineIdle
    /\ DiffIdle
    /\ CmpIdle

CallNext == Tick \/ Call_call_api \/ GetValidToken \/ Post

SpecCall == CallInit /\ [][CallNext]_vars

(***************************************************************************)
(* compare_json_diff called on a pair of responses.                        *)
(***************************************************************************)
DiffInit ==
    /\ diff_java8 \in Responses
    /\ diff_java21 \in Responses
    /\ diff_mapping_config \in DiffMappingConfigs
    /\ diff_gen = "none"
    /\ diff_status = "none"
    /\ has_java8 = FALSE
    /\ mapping_config = <<>>
    /\ Constructed
    /\ ApiIdle
    /\ ResIdle
    /\ SamplerIdle
    /\ FlowIdle
    /\ PipelineIdle
    /\ CallIdle
    /\ CmpIdle

DiffNext == Call_compare_json_diff_v1 \/ Call_compare_json_diff

SpecDiff == DiffInit /\ [][DiffNext]_vars

(***************************************************************************)
(* The aggregation pipeline run on a collection.                           *)
(***************************************************************************)
PipelineInit ==
    /\ collection \in Collections
    /\ pipeline_mappings \in UncoveredFieldLists
    /\ pipeline_gen = "none"
    /\ candidates = <<>>
    /\ has_java8 = FALSE
    /\ mapping_config = <<>>
    /\ Constructed
    /\ ApiIdle
    /\ ResIdle
    /\ SamplerIdle
    /\ FlowIdle
    /\ CallIdle
    /\ DiffIdle
    /\ CmpIdle

PipelineNext == Aggregate_agg \/ Aggregate_Removeprooject \/ Aggregate_x

SpecPipeline == PipelineInit /\ [][PipelineNext]_vars

(***************************************************************************)
(* One run of the rewrite's orchestrator, from run_phase_1 on.             *)
(***************************************************************************)
RunInit ==
    /\ run_pc = "phase1"
    /\ run_collection \in RunCollections
    /\ finder \in {"new.py", "Null.py"}
    /\ test_payment_ids \in TestPaymentIdLists
    /\ p2_uncovered = <<>>
    /\ query_idx = 0
    /\ payment_ids_to_test = <<>>
    /\ to_test = {}
    /\ report = NoReport
    /\ query_log = <<>>
    /\ scheduled = <<>>
    /\ has_java8 \in BOOLEAN
    /\ mapping_config \in RunMappingConfigs
    /\ Constructed
    /\ ApiIdle
    /\ ResIdle
    /\ SamplerIdle
    /\ CallIdle
    /\ DiffIdle
    /\ PipelineIdle
    /\ CmpIdle

RunNext ==
    \/ TestConfiguredKey
    \/ StartPhase2
    \/ QueryField
    \/ EndQueries
    \/ TestFoundKey
    \/ GenerateReports

SpecRun == RunInit /\ [][RunNext]_vars

\* The run is one sequential thread: a step that can be taken is taken.
SpecRunFair == SpecRun /\ WF_vars(RunNext)

(***************************************************************************)
(* Claims about the value classifier, checked under SpecCompare.           *)
(***************************************************************************)
\* value is absent or empty: None, '' or [].
AbsentOrEmpty(v) ==
    \/ v.t = "NoneType"
    \/ (v.t = "str" /\ v.s = <<>>)
    \/ (v.t = "list" /\ v.items = <<>>)

\* C1: classifying a field whose source value and target value are both absent returns
\* NOT_COVERED and never PASS, in the first-generation classifier (_compare_values) and in
\* the rewrite's classifier (compare_values).
C1_BothAbsentNotCovered ==
    /\ (phase = "_compare_values" /\ value1 = None /\ value2 = None)
            => (result.mismatchType = "NOT_COVERED" /\ result.severity # "PASS")
    /\ (phase = "compare_values" /\ value1 = None /\ value2 = None) => status # "PASS"

\* C5: if the source-vs-primary comparison of a field is CRITICAL, the overall status of the
\* field is CRITICAL even when the call to the secondary service failed.
C5_SecondaryErrorKeepsCritical ==
    (/\ phase = "compare_field"
     /\ call3 = "failed"
     /\ field_result.mongoVsJava21.severity = "CRITICAL")
        => field_result.status = "CRITICAL"

\* C6 as claimed: with a secondary value present, the overall status is CRITICAL whenever the
\* source-vs-primary comparison or a source-vs-secondary comparison is CRITICAL.
C6_SourceVsSecondaryCritical ==
    (/\ phase = "compare_field"
     /\ call3 = "ok"
     /\ \/ field_result.mongoVsJava21.severity = "CRITICAL"
        \/ _compare_values(field_result.mongoValue, field_result.java8Value,
                           data_type).severity = "CRITICAL")
        => field_result.status = "CRITICAL"

\* C6 as amended: with a secondary response present, the overall status is CRITICAL whenever
\* the source-vs-primary comparison or the secondary-vs-primary comparison (the second
\* comparison compare_field computes) is CRITICAL.
C6_EitherComparisonCritical ==
    (/\ phase = "compare_field"
     /\ call3 = "ok"
     /\ \/ field_result.mongoVsJava21.severity = "CRITICAL"
        \/ /\ field_result.java8VsJava21 # <<>>
           /\ field_result.java8VsJava21[1].severity = "CRITICAL")
        => field_result.status = "CRITICAL"

\* C6 witness: source and primary agree, the secondary differs from the primary, status CRITICAL.
C6_Witness ==
    /\ phase = "compare_field"
    /\ call3 = "ok"
    /\ field_result.mongoVsJava21.severity = "PASS"
    /\ field_result.java8VsJava21 # <<>>
    /\ field_result.java8VsJava21[1].severity = "CRITICAL"
    /\ field_result.status = "CRITICAL"

\* C7: two values that are not raw-equal, both present and non-empty, both numeric-parseable
\* and less than the tolerance apart classify as a formatting mismatch (mismatch type
\* NUMBER_FORMATTING) with WARNING severity, whatever the declared type.
C7_NumericWithinToleranceIsFormatWarning ==
    (/\ phase = "_compare_values"
     /\ ~deep_equal(value1, value2)
     /\ ~AbsentOrEmpty(value1)
     /\ ~AbsentOrEmpty(value2)
     /\ safe_float_compare(value1, value2))
        => (result.mismatchType = "NUMBER_FORMATTING" /\ result.severity = "WARNING")

\* C8: a pair in which both sides are absent or empty never classifies as TYPE_MISMATCH.
C8_AbsentPairNeverTypeMismatch ==
    (phase = "_compare_values" /\ AbsentOrEmpty(value1) /\ AbsentOrEmpty(value2))
        => result.mismatchType # "TYPE_MISMATCH"

C10_SameValuePasses ==
    (phase = "_compare_values" /\ value1 = value2) => result.severity = "PASS"

\* C10 as amended: classifying a value other than None against the same value returns PASS
\* (a match); for None against None the both-absent rule, applied first, returns NOT_COVERED.
C10_SamePresentValuePasses ==
    (phase = "_compare_values" /\ value1 = value2)
        => IF value1 = None
           THEN result = Verdict(FALSE, "NOT_COVERED", "NOT_COVERED")
           ELSE result = Verdict(TRUE, "None", "PASS")

\* C10 witness: an empty string classified against an empty string passes.
C10_Witness ==
    /\ phase = "_compare_values"
    /\ value1 = Str(<<>>)
    /\ value2 = value1
    /\ result.severity = "PASS"

(***************************************************************************)
(* Claims about the per-key test cycle and the coverage tracker, checked   *)
(* under Spec.                                                             *)
(***************************************************************************)
\* C2: an attribute is in the covered set only if, for at least one tested payment ID, its
\* resolved MongoDB value was found and non-empty; a store value that is absent, null, '' or
\* [] never makes the attribute covered.
C2_CoveredOnlyWithStoreData ==
    \A a \in covered_attributes :
        \E i \in DOMAIN attribute_results :
            /\ attribute_results[i].attributeName = a
            /\ ~AbsentOrEmpty(attribute_results[i].mongoValue)

\* C3: the observations of one payment ID reach the coverage tracker together, only after
\* every mapped attribute of that payment ID has been compared; when the cycle of a payment ID
\* stops part-way on an error, the covered set is what it was before that payment ID started.
C3_CommittedAfterAllClassified ==
    /\ (/\ pc = "step6"
        /\ \E i \in DOMAIN response_attributes :
                response_attributes[i] \in DOMAIN json_to_mongo_map)
            => covered_attributes = covered_at_start
    /\ (pc = "returned" /\ ~test_result.success) => covered_attributes = covered_at_start

\* C4: when the store query or a service fetch of a payment ID fails, the cycle of that payment
\* ID is skipped and ends without success, and no attribute is added to the covered set on
\* account of that payment ID.
C4_FailedFetchSkipsKey ==
    (Failed(mongo_result) \/ Failed(java21_result) \/ Failed(java8_result))
        => /\ pc \in {"returned", "idle"}
           /\ ~test_result.success
           /\ covered_attributes = covered_at_start

(***************************************************************************)
(* Claims about the coverage tracker, checked under SpecTracker.           *)
(***************************************************************************)
\* The observations of payment ID k that have reached the tracker.
Delivered(k) == SubSeq(observations[k], 1, Len(observations[k]) - Len(pending[k]))

\* An observation with data (hadData = true) of attribute p has reached the tracker.
ObservedWithData(p) ==
    \E k \in DOMAIN observations : \E i \in DOMAIN Delivered(k) :
        /\ Delivered(k)[i].jsonAttribute = p
        /\ Delivered(k)[i].mongoValue.t # "NoneType"

AllDelivered == \A k \in DOMAIN pending : pending[k] = <<>>

\* C11: the tracker starts ACTIVE and close() moves it to CLOSED; every observe call made
\* after close() fails with InvalidStateError and leaves the covered set unchanged.
C11_ObserveAfterCloseFails ==
    /\ last_call.op = "close" => tracker_raised = "none"
    /\ (close_called /\ last_call.op = "observe")
            => (tracker_raised = "InvalidStateError" /\ covered = covered_before)

\* C12: the covered set is a subset of the required set in every state; an observation of an
\* attribute outside the required set leaves the covered set unchanged and does not fail.
C12_CoveredWithinRequired ==
    /\ covered \subseteq required
    /\ (last_call.op = "observe" /\ last_call.attribute \notin required)
            => (covered = covered_before /\ tracker_raised = "none")

\* C12 witness: an attribute outside a non-empty covered set's mapping has been observed.
C12_Witness ==
    /\ last_call.op = "observe"
    /\ last_call.attribute \notin required
    /\ covered # {}

\* C13: the covered set only grows: a covered attribute stays covered through every later
\* observation, observations without data of the same attribute included.
C13_CoveredOnlyGrows == [][covered \subseteq covered']_vars

\* C13 witness: an observation without data of an attribute that was covered before it.
C13_Witness ==
    /\ last_call.op = "observe"
    /\ ~last_call.had_data
    /\ last_call.attribute \in covered_before
    /\ last_call.attribute \in covered

\* C14 as claimed: after an observation with data of every required attribute, no attribute
\* is uncovered and the coverage percentage is 100.
C14_AllObservedGivesHundred ==
    (\A p \in required : ObservedWithData(p))
        => (uncovered = {} /\ percentage = 100 * PctScale)

\* C14 as amended: after an observation with data of every required attribute, no attribute
\* is uncovered, and the coverage percentage is 100 if the required set is not empty and 0 if
\* it is empty.
C14_AllObservedGivesFullCoverage ==
    (\A p \in required : ObservedWithData(p))
        => /\ uncovered = {}
           /\ percentage = (IF required = {} THEN 0 ELSE 100 * PctScale)

\* C14 witness: two required attributes, both observed with data, coverage 100.
C14_Witness ==
    /\ Cardinality(required) = 2
    /\ \A p \in required : ObservedWithData(p)
    /\ percentage = 100 * PctScale

\* C15: the coverage percentage is |covered| / |required| x 100 (up to the last digit kept of
\* the quotient) in every state, and 0 when the required set is empty.
C15_PercentageFormula ==
    IF required = {}
    THEN percentage = 0
    ELSE (Cardinality(covered) * 100 * PctScale - percentage * Cardinality(required))
            \in 0..(100 * Cardinality(required))

\* C15 witness: one of two required attributes is covered, the percentage is 50.
C15_Witness ==
    /\ Cardinality(required) = 2
    /\ Cardinality(covered) = 1
    /\ percentage = 50 * PctScale

\* C16: for fixed observations of the payment IDs, the covered set once all of them have
\* reached the tracker is the same whatever the interleaving: the required attributes some
\* observation covers (for the first generation, some observation with data).
C16_FinalCoveredIsUnion ==
    AllDelivered =>
        covered = {p \in required :
                    \E k \in DOMAIN observations : \E i \in DOMAIN observations[k] :
                        /\ observations[k][i].jsonAttribute = p
                        /\ (tracker_gen = 2 \/ observations[k][i].mongoValue.t # "NoneType")}

\* C16 witness: two payment IDs with different observations have all reached the tracker.
C16_Witness ==
    /\ AllDelivered
    /\ observations[1] # <<>>
    /\ observations[2] # <<>>
    /\ observations[1] # observations[2]
    /\ Cardinality(covered) = 2

\* The for-loop of the resolver that was called.
Walked(current, parts) ==
    IF resolver = "get_nested_value_v1" THEN walk_v1(current, parts) ELSE walk(current, parts)

\* The cursor once the first n segments of res_path are consumed.
Cursor(n) == Walked(res_doc, SubSeq(res_path, 1, n))

IsScalar(v) == v.t \in {"str", "int", "float", "bool"}

\* C17: a resolver call never raises, and it returns not-found (None) whenever the walk
\* reaches a scalar with segments remaining or a map that lacks the next segment.
C17_ResolveNeverRaises ==
    resolver # "none" =>
        /\ resolved.t # "raise"
        /\ \A n \in 0..(Len(res_path) - 1) :
              LET cur == Cursor(n) IN
              (IsScalar(cur) \/ (cur.t = "dict" /\ res_path[n + 1] \notin DOMAIN cur.fields))
                  => resolved = None

\* C18: when the cursor at some segment is a non-empty sequence, the call returns what
\* resolving the remaining path against element 0 returns, unless the next segment is a
\* numeric literal, which then indexes the sequence.
C18_SequenceIsItsFirstElement ==
    resolver # "none" =>
        \A n \in 0..(Len(res_path) - 1) :
            LET cur  == Cursor(n)
                rest == SubSeq(res_path, n + 1, Len(res_path))
            IN  (cur.t = "list" /\ Len(cur.items) > 0) =>
                    IF int_ok(Head(rest))
                    THEN resolved = IF DigitVal(Head(rest)) < Len(cur.items)
                                    THEN Walked(cur.items[DigitVal(Head(rest)) + 1], Tail(rest))
                                    ELSE None
                    ELSE resolved = Walked(cur.items[1], rest)

\* The payment IDs of the returned selection.
SelectedPaymentIds ==
    {selection_result.selectedRecords[i].paymentId :
        i \in DOMAIN selection_result.selectedRecords}

\* C19: called with the uncovered fields f1, f2, f3 and the candidates k1 {f1, f2},
\* k2 {f2, f3}, k3 {f1, f2, f3} in that order (candidates 1, 2 and 3), the selection
\* returns k3 and nothing else.
C19_GreedySelectsOnlyK3 ==
    (/\ sel_pc = "returned"
     /\ uncovered_mappings = {<<"f1">>, <<"f2">>, <<"f3">>}
     /\ aggregation_results = <<Candidate(1), Candidate(2), Candidate(3)>>)
        => SelectedPaymentIds = {Candidate(3).fields["paymentId"]}

\* C20: an iteration of the selection loop appends the candidate to selected_records if
\* and only if the candidate has data for a field of U that is not covered yet, exactly
\* those fields then become covered, and the loop is left as soon as every field of U is
\* covered.
C20_SelectedIffCoversNew ==
    [][sel_pc = "loop" =>
        LET record == aggregation_results[rec_idx]
            fresh  == {f \in uncovered_fields \ covered_fields :
                          has_data(field_value(record, f))}
        IN  /\ IF fresh # {}
               THEN /\ Len(selected_records') = Len(selected_records) + 1
                    /\ selected_records'[Len(selected_records')].coversFields
                          = {field_mapping(f) : f \in fresh}
               ELSE selected_records' = selected_records
            /\ covered_fields' = covered_fields \cup fresh
            /\ (covered_fields' = uncovered_fields) <=> (sel_pc' = "after_loop"
                                                          /\ rec_idx' = rec_idx)
      ]_vars

(***************************************************************************)
(* Claims about call_api and the token manager, checked under SpecCall.    *)
(***************************************************************************)
\* C28: a call_api call makes at most max_retries requests, its loop variable never
\* passes max_retries, and once it has returned its result carries a boolean success
\* flag (nothing is raised).
C28_BoundedAttemptsAndResult ==
    /\ http_attempts <= max_retries
    /\ attempt <= max_retries
    /\ call_pc = "returned" =>
            (call_result # NoCallResult /\ call_result.success \in BOOLEAN)

\* C28 witness: a call that used every one of its three attempts and returned a failure.
C28_Witness ==
    /\ call_pc = "returned"
    /\ max_retries = 3
    /\ http_attempts = 3
    /\ last_outcome = "Timeout"
    /\ ~call_result.success

\* C29: get_valid_token asked the token service only when it held no token or the held
\* token expired within the next 5 minutes; when it held a token that stays valid for
\* longer, it asked for nothing and kept that token.
C29_TokenRequestedOnlyWhenExpiring ==
    call_pc = "post" =>
        LET expiring == token_step.tok = 0 \/ token_step.expiry <= token_step.at + 5 * 60 IN
        /\ token_step.requested => expiring
        /\ ~expiring => (~token_step.requested /\ token = token_step.tok)

\* C29 witness: a call that found a token valid for more than 5 minutes and used it.
C29_Witness ==
    /\ call_pc = "post"
    /\ token_step.tok # 0
    /\ token_step.expiry > token_step.at + 5 * 60
    /\ ~token_step.requested
    /\ token_requests = 1
    /\ calls_made = 2

\* C30: after a 401 on an attempt that is not the last, the cached token is invalid and
\* the next attempt sends its request with a token it has just obtained; a 401 on the last
\* attempt returns the authentication failure; any other status that is not 200 returns a
\* failure at once.
C30_RetryAfter401WithFreshToken ==
    /\ (last_outcome = "401" /\ call_pc = "token") => expiry_time = 0
    /\ (last_outcome = "401" /\ call_pc = "post") => (token_step.requested /\ token_step.fresh)
    /\ (last_outcome = "401" /\ call_pc = "returned"
            /\ call_result.error # "Failed to get valid token")
         => /\ attempt = max_retries
            /\ call_result = CallResult(FALSE, "Authentication failed after token refresh", 401)
    /\ last_outcome = "500" =>
            (call_pc = "returned" /\ call_result = CallResult(FALSE, "HTTP 500", 500))

\* C30 witness: the second attempt of a call is about to send its request after a 401,
\* with the second token, the first having been invalidated.
C30_Witness ==
    /\ call_pc = "post"
    /\ last_outcome = "401"
    /\ attempt = 2
    /\ token = 2
    /\ token_step.fresh
    /\ token_step.tok = 1

(***************************************************************************)
(* Claims about the JSON diff, checked under SpecDiff.                     *)
(***************************************************************************)
\* C25: the diff of two responses is empty (status PASS) exactly when the two
\* responses are recursively equal, fields outside the mapping config included;
\* in particular the diff of a response with itself is empty.
C25_EmptyChangeSetIffEqual ==
    diff_gen # "none" => ((diff_status = "PASS") <=> (diff_java8 = diff_java21))

(***************************************************************************)
(* Claims about the aggregation pipeline, checked under SpecPipeline.      *)
(***************************************************************************)
\* A document holds a present, non-null, non-empty value at a field.
HasValue(doc, field) ==
    HasKey(doc, field) /\ doc.fields[field] \notin {None, Str(<<>>), ListV(<<>>)}

\* C21: every candidate the aggregation returns has a present, non-null, non-empty value
\* for at least one of the uncovered fields, and its hit-count is at least 1.
C21_CandidateHasUncoveredValue ==
    pipeline_gen # "none" =>
        \A i \in DOMAIN candidates :
            /\ \E j \in DOMAIN pipeline_mappings : HasValue(candidates[i], pipeline_mappings[j])
            /\ candidates[i].fields["uncoveredFieldCount"].n >= 1

(***************************************************************************)
(* Claims about Phase 2 and the run, checked under SpecRun.                *)
(***************************************************************************)
\* Some document of the collection holds a value at the mongoField.
MatchesDocument(mongo_field) ==
    /\ mongo_field.t = "str"
    /\ \E i \in DOMAIN run_collection : HasValue(run_collection[i], mongo_field.path[1])

\* C22: after sampling, every uncovered mapping whose mongoField matches no document of the
\* collection is still uncovered, and the report of the run lists it as uncovered.
C22_UnmatchedStaysUncovered ==
    run_pc \in {"reports", "done"} =>
        \A i \in DOMAIN p2_uncovered :
            ~MatchesDocument(p2_uncovered[i].mongoField) =>
                /\ p2_uncovered[i].jsonAttribute \notin covered_attributes
                /\ report.generated =>
                        \E j \in DOMAIN report.uncovered_attributes :
                            report.uncovered_attributes[j] = p2_uncovered[i].jsonAttribute

\* C23: in the query-per-field Phase 2, a payment ID is queued once and tested once,
\* however many uncovered fields returned it, and only payment IDs a query returned are tested.
C23_FoundKeyScheduledOnce ==
    /\ \A i, j \in DOMAIN payment_ids_to_test :
            payment_ids_to_test[i] = payment_ids_to_test[j] => i = j
    /\ \A i, j \in DOMAIN scheduled : scheduled[i] = scheduled[j] => i = j
    /\ \A i \in DOMAIN scheduled :
            \E q \in DOMAIN query_log : query_log[q].returned = scheduled[i]

\* Two uncovered fields returned payment ID 1, and the run tested it once.
C23_Witness ==
    /\ run_pc = "done"
    /\ \E p, q \in DOMAIN query_log :
            p # q /\ query_log[p].returned = 1 /\ query_log[q].returned = 1
    /\ scheduled = <<1>>

\* C24: a store query that fails ends the search for candidates: no query is issued after
\* it and no payment ID is tested on account of Phase 2.
C24_QueryFailureEndsGeneration ==
    \A i \in DOMAIN query_log :
        query_log[i].raised = "PyMongoError" => (i = Len(query_log) /\ scheduled = <<>>)

\* C26: with three mapped fields and one sample whose document holds m1 and m2, the service
\* agreeing on both, and a3/m3 absent on both sides, the run has 2 PASS results, 1
\* NOT_COVERED result and a coverage of 2/3.
C26_TwoPassOneNotCovered ==
    ( /\ run_pc = "done"
      /\ ~has_java8
      /\ Len(mapping_config) = 3
      /\ test_payment_ids = <<1>>
      /\ run_collection = <<RunDoc(1)>>
      /\ scheduled = <<>>
      /\ java21_result.success
      /\ get_nested_value(java21_result.data, <<"a3">>) = None )
    => /\ Cardinality({i \in DOMAIN attribute_results :
                            attribute_results[i].status = "PASS"}) = 2
       /\ Cardinality({i \in DOMAIN attribute_results :
                            attribute_results[i].status = "NOT_COVERED"}) = 1
       /\ get_coverage_summary.coverage_percentage = Percent(2, 3)

====
